---- MODULE Spec2Model ----
(***************************************************************************)
(* One invocation of the onchain CLI: the credential set and the installed *)
(* tools are fixed at start, a command runs its provider calls one await   *)
(* at a time, each remote answer is chosen by the environment, and the     *)
(* command ends by printing a result (exit 0) or an error (exit 1).        *)
(***************************************************************************)
EXTENDS Integers, Sequences, FiniteSets, TLC

\* ------------------------------------------------------------------ bounds
\* longest caller-supplied chain order handed to findEvmTransaction
MaxOverrideLen == 2

\* ------------------------------------------------------- credential values
\* A secret is undefined, the empty string, or a non-empty string.
Absent == "<undefined>"
CredValues == {Absent, "", "key"}

\* JavaScript truthiness of an optional string: Boolean(v), and !v negated
Truthy(v) == v # Absent /\ v # ""

CredNames == {"debankApiKey", "heliusApiKey", "zerionApiKey", "etherscanApiKey",
              "solscanApiKey", "binanceApiKey", "binanceApiSecret",
              "coinbaseApiKeyId", "coinbaseApiKeySecret",
              "coingeckoApiKey", "coinmarketcapApiKey"}

NoCreds == [n \in CredNames |-> Absent]

\* a validation that looks at the first secret of a pair only
validateCredentials_FirstOfPair(c) ==
  [ hasDebank        |-> Truthy(c.debankApiKey),
    hasHelius        |-> Truthy(c.heliusApiKey),
    hasCoinbase      |-> Truthy(c.coinbaseApiKeyId),
    hasBinance       |-> Truthy(c.binanceApiKey),
    hasCoinGecko     |-> Truthy(c.coingeckoApiKey),
    hasCoinMarketCap |-> Truthy(c.coinmarketcapApiKey),
    hasEtherscan     |-> Truthy(c.etherscanApiKey),
    hasSolscan       |-> Truthy(c.solscanApiKey) ]
validateCredentials(c) ==
  [ hasDebank        |-> Truthy(c.debankApiKey),
    hasHelius        |-> Truthy(c.heliusApiKey),
    hasCoinbase      |-> Truthy(c.coinbaseApiKeyId) /\ Truthy(c.coinbaseApiKeySecret),
    hasBinance       |-> Truthy(c.binanceApiKey) /\ Truthy(c.binanceApiSecret),
    hasCoinGecko     |-> Truthy(c.coingeckoApiKey),
    hasCoinMarketCap |-> Truthy(c.coinmarketcapApiKey),
    hasEtherscan     |-> Truthy(c.etherscanApiKey),
    hasSolscan       |-> Truthy(c.solscanApiKey) ]

\* readConfigFile: the keys of the parsed file, or {} (with a warning) when
\* the file does not parse; a file that does not exist has no keys
readConfigFile(file) ==
  IF file.parses THEN file.keys ELSE NoCreds

\* loadConfig with the local file's keys taken before the global file's
loadConfig_GlobalLast(globalFile, localFile) ==
  LET g == readConfigFile(globalFile)
      l == readConfigFile(localFile)
  IN [n \in CredNames |-> IF g[n] # Absent THEN g[n] ELSE l[n]]
\* loadConfig: {...DEFAULT_CONFIG, ...global file, ...local file}; a key the
\* local file defines replaces the global file's
loadConfig(globalFile, localFile) ==
  LET g == readConfigFile(globalFile)
      l == readConfigFile(localFile)
  IN [n \in CredNames |-> IF l[n] # Absent THEN l[n] ELSE g[n]]

\* resolveCredentials: env.X ?? config.x for every secret
resolveCredentials(config, env) ==
  [n \in CredNames |-> IF env[n] # Absent THEN env[n] ELSE config[n]]

\* envMap of getMissingCredentialsMessage: credential name to the variables to set
envMap(c) ==
  CASE c = "debank"    -> "DEBANK_API_KEY"
    [] c = "helius"    -> "HELIUS_API_KEY"
    [] c = "binance"   -> "BINANCE_API_KEY and BINANCE_API_SECRET"
    [] c = "etherscan" -> "ETHERSCAN_API_KEY"
    [] c = "solscan"   -> "SOLSCAN_API_KEY"
    [] OTHER -> c

\* Array.prototype.join(', ')
RECURSIVE join(_)
join(q) ==
  IF q = <<>> THEN ""
  ELSE IF Len(q) = 1 THEN q[1]
  ELSE q[1] \o ", " \o join(Tail(q))

getMissingCredentialsMessage(feature, requiredCreds) ==
  feature \o " requires: " \o join([i \in 1..Len(requiredCreds) |-> envMap(requiredCreds[i])])
          \o ". Run onchain setup or set environment variables."

\* ------------------------------------------------------ provider results
\* A provider method returns {success:true,...payload} or {success:false,error}.
\* `from` is the provider whose numbers the payload holds, `empty` says the
\* payload list has length 0, `net` says the method went past its credential
\* guard and touched the network (or spawned the external tool).
Ok(provider, isEmpty) ==
  [success |-> TRUE, error |-> "", from |-> provider, empty |-> isEmpty, net |-> TRUE,
   thrown |-> FALSE]
Fail(msg, touched) ==
  [success |-> FALSE, error |-> msg, from |-> "", empty |-> TRUE, net |-> touched,
   thrown |-> FALSE]
\* the method did not return a value: its promise was rejected with this error
Throw(msg) ==
  [success |-> FALSE, error |-> msg, from |-> "", empty |-> TRUE, net |-> TRUE,
   thrown |-> TRUE]

\* What the remote side can answer to a request that was sent.
Responses == {"ok", "empty", "http", "timeout"}

\* Error strings that say a credential is missing.
NotConfiguredErrors ==
  { "DeBank API key not configured",
    "Helius API key not configured",
    "Zerion API key not configured",
    "Binance API credentials not configured",
    "Etherscan API key not configured. Run onchain setup or set ETHERSCAN_API_KEY environment variable.",
    "Solscan API key not configured. Run onchain setup or set SOLSCAN_API_KEY environment variable.",
    getMissingCredentialsMessage("Binance", <<"binance">>),
    getMissingCredentialsMessage("EVM wallet history", <<"zerion", "debank">>),
    getMissingCredentialsMessage("Solana wallet history", <<"zerion", "helius">>) }

getEvmBalances(c, resp) ==
  IF ~Truthy(c.debankApiKey) THEN Fail("DeBank API key not configured", FALSE)
  ELSE CASE resp = "ok"      -> Ok("debank", FALSE)
         [] resp = "empty"   -> Ok("debank", TRUE)
         [] resp = "http"    -> Fail("DeBank API error", TRUE)
         [] resp = "timeout" -> Fail("Failed to fetch EVM balances", TRUE)

getSolanaBalances(c, resp) ==
  IF ~Truthy(c.heliusApiKey) THEN Fail("Helius API key not configured", FALSE)
  ELSE CASE resp = "ok"      -> Ok("helius", FALSE)
         [] resp = "empty"   -> Ok("helius", TRUE)
         [] resp = "http"    -> Fail("Helius API error", TRUE)
         [] resp = "timeout" -> Fail("Failed to fetch Solana balances", TRUE)

\* Chains the Nansen CLI knows (keys of CHAIN_TO_NANSEN).
CHAIN_TO_NANSEN ==
  {"eth", "ethereum", "bsc", "polygon", "arb", "op", "avax", "base",
   "zksync", "linea", "scroll", "mantle", "solana"}

\* What the Nansen CLI can print: as above, or well-formed JSON of an
\* unexpected shape (success: true with a data object that has no data list)
NansenResponses == Responses \cup {"malformed"}

\* getNansenBalances: availability guard, chain mapping, then the CLI run.
\* resp "http" stands for a non-zero exit / error response of the CLI or
\* output that is not JSON, "timeout" for spawnSync's error (timeout or spawn
\* failure). The loop over response.data.data (line 698) is outside any try.
getNansenBalances(installed, chain, resp) ==
  IF ~installed THEN Fail("Nansen CLI not available", FALSE)
  ELSE IF chain \notin CHAIN_TO_NANSEN THEN Fail("Chain not supported by Nansen", FALSE)
  ELSE CASE resp = "ok"        -> Ok("nansen", FALSE)
         [] resp = "empty"     -> Ok("nansen", TRUE)
         [] resp = "http"      -> Fail("Nansen CLI exited with error", TRUE)
         [] resp = "timeout"   -> Fail("Nansen CLI error", TRUE)
         [] resp = "malformed" -> Throw("response.data.data is not iterable")

\* scrapeDebankProfile / scrapeSolscanProfile: open, eval, parse, close.
scrapeProfile(chainType, resp) ==
  LET who == IF chainType = "evm" THEN "debank-page" ELSE "solscan-page" IN
  CASE resp = "ok"      -> Ok(who, FALSE)
    [] resp = "empty"   -> Ok(who, TRUE)
    [] resp = "http"    -> Fail("Browser scraping failed", TRUE)
    [] resp = "timeout" -> Fail("Browser scraping failed", TRUE)

\* The source tag a command attaches to numbers obtained from a provider.
SourceTagOf(provider) ==
  CASE provider = "nansen" -> "nansen"
    [] provider \in {"debank", "helius"} -> "api"
    [] provider \in {"debank-page", "solscan-page"} -> "browser"
    [] provider = "zerion" -> "zerion"
    [] OTHER -> "none"

\* ---------------------------------------------------------------- state
VARIABLES
  cmd,        \* the command of this invocation
  inp,        \* its arguments and flags
  creds,      \* resolved credential set
  tools,      \* external tools found on PATH: [nansen, agentBrowser]
  pc,         \* position inside the command's action handler
  loc,        \* the handler's local variables
  calls,      \* provider methods invoked so far, in order, with their results
  stderr,     \* lines written to standard error
  result,     \* the printed result object, or NoResult
  exitCode    \* -1 while running, then 0 or 1

vars == <<cmd, inp, creds, tools, pc, loc, calls, stderr, result, exitCode>>

NoResult == [kind |-> "none"]
NoTools == [nansen |-> FALSE, agentBrowser |-> FALSE]

\* one entry of `calls`
Call(provider, chain, r) == [provider |-> provider, chain |-> chain, r |-> r]

\* console.error(`${ctx.p('err')}${msg}`); process.exit(1)
Die(msg) ==
  /\ stderr' = Append(stderr, [level |-> "err", text |-> msg, detail |-> ""])
  /\ exitCode' = 1
  /\ pc' = "done"

\* ------------------------------------------------------- balance command
BalanceInputs ==
  [ chainType : {"evm", "solana"},
    browser   : BOOLEAN,
    chain     : {Absent, "eth", "blast"} ]

BalanceLocals == [source |-> "api", balancesFrom |-> "", totalFrom |-> "", balancesEmpty |-> TRUE]

hasApiKey == IF inp.chainType = "evm" THEN validateCredentials(creds).hasDebank
                                      ELSE validateCredentials(creds).hasHelius
useNansen == tools.nansen
useBrowser == inp.browser \/ (~useNansen /\ ~hasApiKey)

\* isAgentBrowserAvailable(): `which agent-browser` succeeds
isAgentBrowserAvailable_Always == TRUE
isAgentBrowserAvailable == tools.agentBrowser

\* condition of the last-resort block
BrowserBlockWanted_AnySource(l) ==
  useBrowser \/ (l.balancesEmpty /\ ~hasApiKey)
BrowserBlockWanted(l) ==
  useBrowser \/ (l.source = "api" /\ l.balancesEmpty /\ ~hasApiKey)

\* lines 58-73: the preferred provider
BalanceNansen ==
  /\ cmd = "balance" /\ pc = "nansen"
  /\ IF useNansen /\ ~inp.browser
     THEN \E resp \in NansenResponses :
            LET chain == IF inp.chainType = "evm"
                         THEN (IF inp.chain = Absent THEN "eth" ELSE inp.chain)
                         ELSE "solana"
                r == getNansenBalances(tools.nansen, chain, resp)
            IN /\ calls' = Append(calls, Call("nansen", chain, r))
               /\ IF r.thrown
                  \* the rejection leaves the action; parseAsync().catch prints it
                  THEN /\ Die(r.error)
                       /\ loc' = [loc EXCEPT !.source = "nansen"]
                  ELSE IF r.success
                  THEN /\ loc' = [loc EXCEPT !.source = "nansen", !.balancesFrom = r.from,
                                             !.totalFrom = r.from, !.balancesEmpty = r.empty]
                       /\ pc' = "api"
                       /\ UNCHANGED <<stderr, exitCode>>
                  ELSE /\ loc' = [loc EXCEPT !.source = "api"]
                       /\ stderr' = Append(stderr, [level |-> "muted",
                                   text |-> "Nansen failed, falling back to API", detail |-> r.error])
                       /\ pc' = "api"
                       /\ UNCHANGED exitCode
     ELSE pc' = "api" /\ UNCHANGED <<calls, loc, stderr, exitCode>>
  /\ UNCHANGED <<cmd, inp, creds, tools, result>>

\* lines 75-99: the chain-specific API
BalanceApi ==
  /\ cmd = "balance" /\ pc = "api"
  /\ IF loc.source = "api" /\ ~useBrowser
     THEN \E resp \in Responses :
            LET r == IF inp.chainType = "evm" THEN getEvmBalances(creds, resp)
                                              ELSE getSolanaBalances(creds, resp)
                who == IF inp.chainType = "evm" THEN "debank" ELSE "helius"
            IN /\ calls' = Append(calls, Call(who, inp.chainType, r))
               /\ IF ~r.success
                  THEN Die(r.error) /\ UNCHANGED loc
                  ELSE /\ loc' = [loc EXCEPT !.balancesFrom = r.from, !.totalFrom = r.from,
                                             !.balancesEmpty = r.empty]
                       /\ pc' = "browser"
                       /\ UNCHANGED <<stderr, exitCode>>
     ELSE /\ pc' = "browser"
          /\ UNCHANGED <<calls, loc, stderr, exitCode>>
  /\ UNCHANGED <<cmd, inp, creds, tools, result>>

\* lines 103, 127-137: the scraped numbers replace balances and total
TakeScrape_KeepSource(l, r) ==
  [l EXCEPT !.balancesFrom = r.from, !.totalFrom = r.from, !.balancesEmpty = r.empty]
TakeScrape(l, r) ==
  [l EXCEPT !.source = "browser", !.balancesFrom = r.from,
            !.totalFrom = r.from, !.balancesEmpty = r.empty]

\* lines 101-138: browser scraping as last resort
BalanceBrowser ==
  /\ cmd = "balance" /\ pc = "browser"
  /\ IF BrowserBlockWanted(loc)
     THEN IF ~isAgentBrowserAvailable
          THEN /\ Die("No API key configured and agent-browser CLI not available.")
               /\ loc' = [loc EXCEPT !.source = "browser"]
               /\ UNCHANGED calls
          ELSE \E resp \in Responses :
                 LET r == scrapeProfile(inp.chainType, resp)
                     who == IF inp.chainType = "evm" THEN "debank-page" ELSE "solscan-page"
                 IN
                 /\ calls' = Append(calls, Call(who, inp.chainType, r))
                 /\ IF ~r.success
                    THEN /\ stderr' = stderr \o
                              << [level |-> "muted", text |-> "Using browser scraping (no API key configured)...", detail |-> ""],
                                 [level |-> "err", text |-> r.error, detail |-> ""] >>
                         /\ exitCode' = 1
                         /\ pc' = "done"
                         /\ loc' = [loc EXCEPT !.source = "browser"]
                    ELSE /\ stderr' = Append(stderr,
                              [level |-> "muted", text |-> "Using browser scraping (no API key configured)...", detail |-> ""])
                         /\ loc' = TakeScrape(loc, r)
                         /\ pc' = "output"
                         /\ UNCHANGED exitCode
     ELSE /\ pc' = "output"
          /\ UNCHANGED <<calls, loc, stderr, exitCode>>
  /\ UNCHANGED <<cmd, inp, creds, tools, result>>

\* lines 147-154: the printed object {address, chainType, totalValueUsd, balances, source}
BalanceJson_SourceByAvailability(l) ==
  [kind |-> "balance", source |-> IF useNansen /\ ~inp.browser THEN "nansen" ELSE l.source,
   balancesFrom |-> l.balancesFrom, totalFrom |-> l.totalFrom, error |-> ""]
BalanceJson(l) ==
  [kind |-> "balance", source |-> l.source,
   balancesFrom |-> l.balancesFrom, totalFrom |-> l.totalFrom, error |-> ""]

\* lines 140-156: filters, then print
BalanceOutput ==
  /\ cmd = "balance" /\ pc = "output"
  /\ result' = BalanceJson(loc)
  /\ exitCode' = 0
  /\ pc' = "done"
  /\ UNCHANGED <<cmd, inp, creds, tools, loc, calls, stderr>>

InitBalance ==
  /\ cmd = "balance"
  /\ inp \in BalanceInputs
  /\ \E d \in CredValues, h \in CredValues :
       creds = [NoCreds EXCEPT !.debankApiKey = d, !.heliusApiKey = h]
  /\ tools \in [nansen : BOOLEAN, agentBrowser : BOOLEAN]
  /\ pc = "nansen"
  /\ loc = BalanceLocals


\* --------------------------------------------------------------- timeouts
\* A timeout setting as JavaScript sees it: a missing key or option, the
\* empty string, a number (or a string Number() parses to it), or a string
\* that is not a number.
TAbsent == [k |-> "absent", n |-> 0]
TEmpty == [k |-> "empty", n |-> 0]
TNaN == [k |-> "nan", n |-> 0]
TNum(n) == [k |-> "num", n |-> n]

DEFAULT_TIMEOUT_MS == 30000

\* the first value that is a finite number above zero, else undefined
resolveTimeoutMs(values) ==
  LET usable == {i \in 1..Len(values) : values[i].k = "num" /\ values[i].n > 0}
  IN IF usable = {} THEN TAbsent
     ELSE values[CHOOSE i \in usable : \A j \in usable : i <= j]

\* loadConfig().timeoutMs: {...DEFAULT_CONFIG, ...global file, ...local file}
loadConfigTimeoutMs(globalFile, localFile) ==
  IF localFile.k # "absent" THEN localFile
  ELSE IF globalFile.k # "absent" THEN globalFile
  ELSE TNum(DEFAULT_TIMEOUT_MS)

configTimeoutMs == loadConfigTimeoutMs(inp.globalTimeoutMs, inp.localTimeoutMs)

\* resolveTimeoutMs(options.timeout, config.timeoutMs, env.ONCHAIN_TIMEOUT_MS)
resolveTimeoutFromOptions ==
  resolveTimeoutMs(<<inp.timeout, configTimeoutMs, inp.envTimeout>>)

\* the timeoutMs the command hands to its client: the test command builds the
\* client from getClientOptions() alone, the others overwrite its timeoutMs
\* with the resolved value
clientTimeoutMs_Resolved ==
  resolveTimeoutFromOptions
clientTimeoutMs ==
  IF cmd = "test" THEN configTimeoutMs ELSE resolveTimeoutFromOptions

\* fetchWithTimeout arms an abort timer unless !timeoutMs || timeoutMs <= 0
\* (a non-numeric string is truthy and not <= 0: the timer is set)
TimerArmed(t) == t.k = "nan" \/ (t.k = "num" /\ t.n > 0)

\* a remote side that does not answer: with the timer the fetch is aborted
\* and the provider's catch turns that into a failure, without it the await
\* never completes
NeverReturns(resp) == resp = "timeout" /\ ~TimerArmed(clientTimeoutMs)

\* timeout settings of an invocation that sets none of them
NoTimeoutSettings ==
  [timeout : {TAbsent}, globalTimeoutMs : {TAbsent}, localTimeoutMs : {TAbsent},
   envTimeout : {TAbsent}]

\* --timeout, the two config files and ONCHAIN_TIMEOUT_MS
TimeoutSettings ==
  [timeout : {TAbsent, TNaN, TNum(5000)},
   globalTimeoutMs : {TAbsent, TNum(0)},
   localTimeoutMs : {TAbsent, TNum(0), TNum(1000)},
   envTimeout : {TAbsent, TEmpty, TNum(2000)}]

\* ------------------------------------------------------- history command
\* a method whose fetch is not inside its try block: the abort of the timed
\* out request leaves the method as a rejection
getZerionHistory_TimeoutThrows(c, resp) ==
  IF ~Truthy(c.zerionApiKey) THEN Fail("Zerion API key not configured", FALSE)
  ELSE CASE resp = "ok"      -> Ok("zerion", FALSE)
         [] resp = "empty"   -> Ok("zerion", TRUE)
         [] resp = "http"    -> Fail("Zerion API error", TRUE)
         [] resp = "timeout" -> Throw("This operation was aborted")
getZerionHistory(c, resp) ==
  IF ~Truthy(c.zerionApiKey) THEN Fail("Zerion API key not configured", FALSE)
  ELSE CASE resp = "ok"      -> Ok("zerion", FALSE)
         [] resp = "empty"   -> Ok("zerion", TRUE)
         [] resp = "http"    -> Fail("Zerion API error", TRUE)
         [] resp = "timeout" -> Fail("Failed to fetch Zerion history", TRUE)

getEvmHistory(c, resp) ==
  IF ~Truthy(c.debankApiKey) THEN Fail("DeBank API key not configured", FALSE)
  ELSE CASE resp = "ok"      -> Ok("debank", FALSE)
         [] resp = "empty"   -> Ok("debank", TRUE)
         [] resp = "http"    -> Fail("DeBank API error", TRUE)
         [] resp = "timeout" -> Fail("Failed to fetch EVM history", TRUE)

getSolanaHistory(c, resp) ==
  IF ~Truthy(c.heliusApiKey) THEN Fail("Helius API key not configured", FALSE)
  ELSE CASE resp = "ok"      -> Ok("helius", FALSE)
         [] resp = "empty"   -> Ok("helius", TRUE)
         [] resp = "http"    -> Fail("Helius API error", TRUE)
         [] resp = "timeout" -> Fail("Failed to fetch Solana history", TRUE)

WithTimeouts(chainTypes, settings) ==
  {[chainType |-> c, timeout |-> t.timeout, globalTimeoutMs |-> t.globalTimeoutMs,
    localTimeoutMs |-> t.localTimeoutMs, envTimeout |-> t.envTimeout] :
     c \in chainTypes, t \in settings}

\* cmdOpts.cursor: undefined without --cursor, else the string the user typed
WithCursor(inputs, cursors) ==
  {[chainType |-> i.chainType, timeout |-> i.timeout, globalTimeoutMs |-> i.globalTimeoutMs,
    localTimeoutMs |-> i.localTimeoutMs, envTimeout |-> i.envTimeout, cursor |-> c] :
     i \in inputs, c \in cursors}

HistoryInputs == WithCursor(WithTimeouts({"evm", "solana"}, NoTimeoutSettings), {Absent})

\* one history entry of `calls`: the call and the options.cursor it was given
HistoryCall(provider, chain, cursor, r) ==
  [provider |-> provider, chain |-> chain, r |-> r, cursor |-> cursor]

HistoryLocals == [source |-> "api", transactionsFrom |-> "", nextCursorFrom |-> ""]

\* validation.hasZerion as the command reads it (lines 42 and 60); the flag
\* follows the same rule as the other single-key providers and as the guard
\* of getZerionHistory, the presence of the Zerion API key
hasZerion == Truthy(creds.zerionApiKey)

hasChainApi == IF inp.chainType = "evm" THEN validateCredentials(creds).hasDebank
                                        ELSE validateCredentials(creds).hasHelius

\* lines 36-48: neither history provider is configured
HistoryValidate ==
  /\ cmd = "history" /\ pc = "validate"
  /\ IF ~hasZerion /\ ~hasChainApi
     THEN Die(IF inp.chainType = "evm"
              THEN getMissingCredentialsMessage("EVM wallet history", <<"zerion", "debank">>)
              ELSE getMissingCredentialsMessage("Solana wallet history", <<"zerion", "helius">>))
     ELSE pc' = "zerion" /\ UNCHANGED <<stderr, exitCode>>
  /\ UNCHANGED <<cmd, inp, creds, tools, loc, calls, result>>

\* lines 59-76: the unified provider first
HistoryZerion ==
  /\ cmd = "history" /\ pc = "zerion"
  /\ IF hasZerion
     THEN \E resp \in Responses :
            LET r == getZerionHistory(creds, resp) IN
            IF r.net /\ NeverReturns(resp)
            THEN pc' = "waiting" /\ UNCHANGED <<calls, loc, stderr, exitCode>>
            ELSE
            /\ calls' = Append(calls, HistoryCall("zerion", inp.chainType, inp.cursor, r))
            /\ IF r.thrown
               THEN Die(r.error) /\ UNCHANGED loc
               ELSE IF r.success
               THEN /\ loc' = [source |-> "zerion", transactionsFrom |-> r.from,
                               nextCursorFrom |-> r.from]
                    /\ pc' = "api"
                    /\ UNCHANGED <<stderr, exitCode>>
               ELSE IF hasChainApi
               THEN /\ stderr' = Append(stderr, [level |-> "muted",
                                 text |-> "Zerion failed, falling back to API", detail |-> r.error])
                    /\ pc' = "api"
                    /\ UNCHANGED <<loc, exitCode>>
               ELSE Die(r.error) /\ UNCHANGED loc
     ELSE pc' = "api" /\ UNCHANGED <<calls, loc, stderr, exitCode>>
  /\ UNCHANGED <<cmd, inp, creds, tools, result>>

\* lines 78-108: DeBank / Helius
HistoryApi ==
  /\ cmd = "history" /\ pc = "api"
  /\ IF loc.source = "api"
     THEN \E resp \in Responses :
            LET r == IF inp.chainType = "evm" THEN getEvmHistory(creds, resp)
                                              ELSE getSolanaHistory(creds, resp)
                who == IF inp.chainType = "evm" THEN "debank" ELSE "helius"
            IN IF r.net /\ NeverReturns(resp)
               THEN pc' = "waiting" /\ UNCHANGED <<calls, loc, stderr, exitCode>>
               ELSE
               /\ calls' = Append(calls, HistoryCall(who, inp.chainType, inp.cursor, r))
               /\ IF ~r.success
                  THEN Die(r.error) /\ UNCHANGED loc
                  ELSE /\ loc' = [loc EXCEPT !.transactionsFrom = r.from, !.nextCursorFrom = r.from]
                       /\ pc' = "output"
                       /\ UNCHANGED <<stderr, exitCode>>
     ELSE pc' = "output" /\ UNCHANGED <<calls, loc, stderr, exitCode>>
  /\ UNCHANGED <<cmd, inp, creds, tools, result>>

\* lines 110-117: {address, chainType, transactions, nextCursor}; the header
\* line of the table view names the source
HistoryOutput ==
  /\ cmd = "history" /\ pc = "output"
  /\ result' = [kind |-> "history", source |-> loc.source,
                balancesFrom |-> loc.transactionsFrom, totalFrom |-> loc.nextCursorFrom,
                error |-> ""]
  /\ exitCode' = 0
  /\ pc' = "done"
  /\ UNCHANGED <<cmd, inp, creds, tools, loc, calls, stderr>>

InitHistory ==
  /\ cmd = "history"
  /\ inp \in HistoryInputs
  /\ \E d \in CredValues, h \in CredValues, z \in CredValues :
       creds = [NoCreds EXCEPT !.debankApiKey = d, !.heliusApiKey = h, !.zerionApiKey = z]
  /\ tools = NoTools
  /\ pc = "validate"
  /\ loc = HistoryLocals

\* history with every combination of timeout settings
InitHistoryTimeouts ==
  /\ cmd = "history"
  /\ inp \in WithCursor(WithTimeouts({"evm", "solana"}, TimeoutSettings), {Absent})
  /\ \E d \in {Absent, "key"}, h \in {Absent, "key"}, z \in {Absent, "key"} :
       creds = [NoCreds EXCEPT !.debankApiKey = d, !.heliusApiKey = h, !.zerionApiKey = z]
  /\ tools = NoTools
  /\ pc = "validate"
  /\ loc = HistoryLocals

\* result.nextCursor of a history method: Zerion takes page[after] out of
\* links.next, DeBank the time_at of the last item, Helius the signature of
\* the last transaction; an empty page has none
nextCursorOf(r) ==
  IF ~r.success \/ r.empty THEN Absent
  ELSE CASE r.from = "zerion" -> "zerion:page[after]"
         [] r.from = "debank" -> "debank:time_at"
         [] r.from = "helius" -> "helius:signature"

\* The user asks for the next page: the same command again with --cursor set
\* to the nextCursor the finished invocation printed.
HistoryNextPage ==
  /\ cmd = "history" /\ pc = "done" /\ exitCode = 0
  /\ calls # <<>>
  /\ nextCursorOf(calls[Len(calls)].r) # Absent
  /\ inp' = [inp EXCEPT !.cursor = nextCursorOf(calls[Len(calls)].r)]
  /\ pc' = "validate"
  /\ loc' = HistoryLocals
  /\ calls' = <<>>
  /\ stderr' = <<>>
  /\ result' = NoResult
  /\ exitCode' = -1
  /\ UNCHANGED <<cmd, creds, tools>>

\* ----------------------------------------------------------- test command
\* registerTestCommand: the client is new OnchainClient(ctx.getClientOptions());
\* of its provider tests the one of the keyless market provider is modelled
TestPolymarket ==
  /\ cmd = "test" /\ pc = "test"
  /\ \E resp \in Responses :
       LET r == IF resp \in {"ok", "empty"} THEN Ok("polymarket", resp = "empty")
                ELSE IF resp = "http" THEN Fail("Polymarket API error", TRUE)
                ELSE Fail("Failed to fetch trending markets", TRUE)
       IN IF NeverReturns(resp)
          THEN pc' = "waiting" /\ UNCHANGED <<calls, result, exitCode>>
          ELSE /\ calls' = Append(calls, Call("polymarket", "trending", r))
               /\ result' = [kind |-> "test", source |-> "polymarket",
                             status |-> IF r.success THEN "ok" ELSE "fail", error |-> r.error]
               /\ exitCode' = IF r.success THEN 0 ELSE 1
               /\ pc' = "done"
  /\ UNCHANGED <<cmd, inp, creds, tools, loc, stderr>>

InitTest ==
  /\ cmd = "test"
  /\ inp \in WithTimeouts({"none"}, TimeoutSettings)
  /\ creds = NoCreds
  /\ tools = NoTools
  /\ pc = "test"
  /\ loc = [source |-> "test"]

\* ------------------------------------------------ binance balance command
getBinanceBalances(c, resp) ==
  IF ~Truthy(c.binanceApiKey) \/ ~Truthy(c.binanceApiSecret)
  THEN Fail("Binance API credentials not configured", FALSE)
  ELSE CASE resp = "ok"      -> Ok("binance", FALSE)
         [] resp = "empty"   -> Ok("binance", TRUE)
         [] resp = "http"    -> Fail("Binance API error", TRUE)
         [] resp = "timeout" -> Fail("Failed to fetch Binance balances", TRUE)

\* registerBinanceCommands, balance: capability check, then the one provider
BinanceBalance ==
  /\ cmd = "binance" /\ pc = "validate"
  /\ IF ~validateCredentials(creds).hasBinance
     THEN Die(getMissingCredentialsMessage("Binance", <<"binance">>)) /\ UNCHANGED <<calls, result>>
     ELSE \E resp \in Responses :
            LET r == getBinanceBalances(creds, resp) IN
            /\ calls' = Append(calls, Call("binance", "", r))
            /\ IF ~r.success
               THEN Die(r.error) /\ UNCHANGED result
               ELSE /\ result' = [kind |-> "binance", source |-> "binance",
                                  balancesFrom |-> r.from, totalFrom |-> r.from, error |-> ""]
                    /\ exitCode' = 0
                    /\ pc' = "done"
                    /\ UNCHANGED stderr
  /\ UNCHANGED <<cmd, inp, creds, tools, loc>>

InitBinance ==
  /\ cmd = "binance"
  /\ inp = [chainType |-> "cex"]
  /\ \E k \in CredValues, s \in CredValues :
       creds = [NoCreds EXCEPT !.binanceApiKey = k, !.binanceApiSecret = s]
  /\ tools = NoTools
  /\ pc = "validate"
  /\ loc = [source |-> "binance"]


\* ------------------------------------------------------------ tx command
\* Default chain search order (prioritized by usage)
DEFAULT_CHAIN_ORDER ==
  <<"ethereum", "arbitrum", "base", "polygon", "optimism", "bsc", "avalanche", "fantom">>

VALID_CHAINS ==
  {"ethereum", "polygon", "bsc", "arbitrum", "base", "optimism", "avalanche", "fantom"}

\* EXPLORER_PATTERNS in list order: host, the kind of hash the pattern's
\* capture group accepts, and the chain the pattern is mapped to.
EXPLORER_PATTERNS ==
  << [host |-> "etherscan.io",            accepts |-> "evmhash", chain |-> "ethereum"],
     [host |-> "polygonscan.com",         accepts |-> "evmhash", chain |-> "polygon"],
     [host |-> "bscscan.com",             accepts |-> "evmhash", chain |-> "bsc"],
     [host |-> "arbiscan.io",             accepts |-> "evmhash", chain |-> "arbitrum"],
     [host |-> "basescan.org",            accepts |-> "evmhash", chain |-> "base"],
     [host |-> "optimistic.etherscan.io", accepts |-> "evmhash", chain |-> "optimism"],
     [host |-> "snowtrace.io",            accepts |-> "evmhash", chain |-> "avalanche"],
     [host |-> "ftmscan.com",             accepts |-> "evmhash", chain |-> "fantom"],
     [host |-> "solscan.io",              accepts |-> "solsig",  chain |-> "solana"],
     [host |-> "explorer.solana.com",     accepts |-> "solsig",  chain |-> "solana"] >>

ExplorerHosts == {EXPLORER_PATTERNS[i].host : i \in 1..Len(EXPLORER_PATTERNS)}

\* The text handed to parseTxInput, by the parts the patterns tell apart:
\* surrounding whitespace, a scheme, an optional www., a host, a path, the
\* payload (a 0x + 64 hex string, a base58 string of full length, or
\* something else) and whatever follows the payload.  A bare text has no
\* scheme, host or path.
TxTails == {"", "?tab=logs", "morehashchars"}

\* the texts of the tx command: no padding, no www., nothing after the payload
TxTexts ==
  [ pad : {FALSE}, scheme : {"http", "https"}, www : {FALSE},
    host    : ExplorerHosts \cup {"example.com"}, path : {"/tx/"},
    payload : {"evmhash", "solsig", "junk"}, tail : {""} ]
  \cup [ pad : {FALSE}, scheme : {"none"}, www : {FALSE}, host : {""}, path : {""},
         payload : {"evmhash", "solsig", "junk"}, tail : {""} ]

\* every text parseTxInput is applied to
ParseTexts ==
  [ pad : BOOLEAN, scheme : {"http", "https", "HTTPS"}, www : BOOLEAN,
    host    : ExplorerHosts \cup {"example.com", "sepolia.etherscan.io"},
    path    : {"/tx/", "/address/"},
    payload : {"evmhash", "solsig", "junk"}, tail : TxTails ]
  \cup [ pad : BOOLEAN, scheme : {"none"}, www : {FALSE}, host : {""}, path : {""},
         payload : {"evmhash", "solsig", "junk"}, tail : TxTails ]

\* String.prototype.trim
trim(t) == [t EXCEPT !.pad = FALSE]

\* trimmed.startsWith('http://') || trimmed.startsWith('https://')
startsWithHttp(t) == ~t.pad /\ t.scheme \in {"http", "https"}

\* text.match(pattern): anchored at the start (scheme, optional www., host,
\* /tx/, the hash), not at the end
matchPattern(p, t) ==
  /\ startsWithHttp(t)
  /\ p.host = t.host
  /\ t.path = "/tx/"
  /\ p.accepts = t.payload

\* what the fully anchored raw-hash expressions see in a whole text
kindOfText(t) ==
  IF ~t.pad /\ t.scheme = "none" /\ t.tail = "" THEN t.payload ELSE "junk"

detectTxHashType(payload) ==
  IF payload = "evmhash" THEN "evm"
  ELSE IF payload = "solsig" THEN "solana"
  ELSE "unknown"

\* the body of parseTxInput after the trim: a URL is matched against the
\* patterns in order, anything else is taken as a raw hash
parseTrimmed(t) ==
  IF startsWithHttp(t)
  THEN LET hits == {i \in 1..Len(EXPLORER_PATTERNS) : matchPattern(EXPLORER_PATTERNS[i], t)}
       IN IF hits # {}
          THEN LET i == CHOOSE j \in hits : \A k \in hits : j <= k
                   chain == EXPLORER_PATTERNS[i].chain
               IN [hash |-> t.payload, chain |-> chain,
                   type |-> IF chain = "solana" THEN "solana" ELSE "evm"]
          ELSE [hash |-> "url", chain |-> Absent, type |-> "unknown"]
  ELSE [hash  |-> IF t.scheme = "none" /\ t.tail = "" /\ ~t.pad THEN t.payload ELSE "text",
        chain |-> Absent, type |-> detectTxHashType(kindOfText(t))]

parseTxInput_NoTrim(input) == parseTrimmed(input)
parseTxInput(input) == parseTrimmed(trim(input))

\* What an explorer can answer to a transaction lookup that was sent.
TxResponses == {"found", "notfound", "http", "timeout"}

getEvmTransaction_NoGuard(c, chain, resp) ==
  CASE resp = "found"    -> Ok("etherscan", FALSE)
    [] resp = "notfound" -> Fail("Transaction not found", TRUE)
    [] resp = "http"     -> Fail("API error", TRUE)
    [] resp = "timeout"  -> Fail("Failed to fetch transaction", TRUE)
getEvmTransaction(c, chain, resp) ==
  IF ~Truthy(c.etherscanApiKey)
  THEN Fail("Etherscan API key not configured. Run onchain setup or set ETHERSCAN_API_KEY environment variable.", FALSE)
  ELSE CASE resp = "found"    -> Ok("etherscan", FALSE)
         [] resp = "notfound" -> Fail("Transaction not found", TRUE)
         [] resp = "http"     -> Fail("API error", TRUE)
         [] resp = "timeout"  -> Fail("Failed to fetch transaction", TRUE)

getSolanaTransaction(c, resp) ==
  IF ~Truthy(c.solscanApiKey)
  THEN Fail("Solscan API key not configured. Run onchain setup or set SOLSCAN_API_KEY environment variable.", FALSE)
  ELSE CASE resp = "found"    -> Ok("solscan", FALSE)
         [] resp = "notfound" -> Fail("Transaction not found", TRUE)
         [] resp = "http"     -> Fail("Solscan API error", TRUE)
         [] resp = "timeout"  -> Fail("Failed to fetch transaction", TRUE)

\* String.prototype.toLowerCase on the --chain values used here
toLowerCase(v) == IF v = "BASE" THEN "base" ELSE v

TxInputs ==
  [ text    : TxTexts,
    chain   : {Absent, "BASE", "dogechain"} \cup VALID_CHAINS,
    verbose : BOOLEAN ]

TxLocals ==
  [ transactionChain |-> Absent, chains |-> <<>>, idx |-> 1, triedChains |-> <<>>,
    foundChain |-> Absent ]

\* line 73: the chain of a recognised EVM explorer URL
chainFromUrlOf_Ignored(parsed) == Absent
chainFromUrlOf(parsed) ==
  IF parsed.chain # Absent /\ parsed.chain # "solana" THEN parsed.chain ELSE Absent

\* line 90: the --chain flag, lower-cased
explicitChainOf(flag) == IF flag = Absent THEN Absent ELSE toLowerCase(flag)

\* lines 60-130 up to the first provider call
TxStart ==
  /\ cmd = "tx" /\ pc = "parse"
  /\ LET parsed == parseTxInput(inp.text)
         chainFromUrl == chainFromUrlOf(parsed)
         explicitChain == explicitChainOf(inp.chain)
         Single(chain) ==
           \E resp \in TxResponses :
             LET r == getEvmTransaction(creds, chain, resp) IN
             /\ calls' = Append(calls, Call("etherscan", chain, r))
             /\ IF ~r.success
                THEN Die(r.error) /\ UNCHANGED loc
                ELSE /\ loc' = [loc EXCEPT !.transactionChain = chain]
                     /\ pc' = "verbose"
                     /\ UNCHANGED <<stderr, exitCode>>
     IN
     IF parsed.type = "unknown"
     THEN /\ stderr' = stderr \o
               << [level |-> "err", text |-> "Invalid transaction hash or URL format", detail |-> ""],
                  [level |-> "hint", text |-> "Supported: EVM hashes, Solana signatures, or explorer URLs", detail |-> ""] >>
          /\ exitCode' = 1
          /\ pc' = "done"
          /\ UNCHANGED <<calls, loc>>
     ELSE IF parsed.type = "solana"
     THEN \E resp \in TxResponses :
            LET r == getSolanaTransaction(creds, resp) IN
            /\ calls' = Append(calls, Call("solscan", "solana", r))
            /\ IF ~r.success
               THEN Die(r.error) /\ UNCHANGED loc
               ELSE /\ loc' = [loc EXCEPT !.transactionChain = "solana"]
                    /\ pc' = "output"
                    /\ UNCHANGED <<stderr, exitCode>>
     ELSE IF explicitChain # Absent
     THEN IF explicitChain \notin VALID_CHAINS
          THEN /\ stderr' = stderr \o
                    << [level |-> "err", text |-> "Invalid chain", detail |-> inp.chain],
                       [level |-> "hint", text |-> "Valid chains", detail |-> ""] >>
               /\ exitCode' = 1
               /\ pc' = "done"
               /\ UNCHANGED <<calls, loc>>
          ELSE Single(explicitChain)
     ELSE IF chainFromUrl # Absent
     THEN Single(chainFromUrl)
     ELSE /\ loc' = [loc EXCEPT !.chains = DEFAULT_CHAIN_ORDER, !.idx = 1, !.triedChains = <<>>]
          /\ pc' = "probe"
          /\ UNCHANGED <<calls, stderr, exitCode>>
  /\ UNCHANGED <<cmd, inp, creds, tools, result>>

\* findEvmTransaction, one turn of the loop: push the chain, look it up,
\* return on success; the command continues at lines 123-129
FindProbe_NoBreak ==
  /\ cmd \in {"tx", "find"} /\ pc = "probe"
  /\ loc.idx <= Len(loc.chains)
  /\ \E resp \in TxResponses :
       LET chain == loc.chains[loc.idx]
           r == getEvmTransaction(creds, chain, resp)
           tried == Append(loc.triedChains, chain)
       IN /\ calls' = Append(calls, Call("etherscan", chain, r))
          /\ IF r.success /\ loc.idx = Len(loc.chains)
             THEN /\ loc' = [loc EXCEPT !.triedChains = tried, !.foundChain = chain,
                                        !.transactionChain = chain]
                  /\ IF cmd = "tx"
                     THEN pc' = "verbose" /\ UNCHANGED result
                     ELSE /\ pc' = "returned"
                          /\ result' = [kind |-> "find", success |-> TRUE, chain |-> chain,
                                        error |-> "", triedChains |-> <<>>]
             ELSE /\ loc' = [loc EXCEPT !.triedChains = tried, !.idx = @ + 1,
                                        !.foundChain = IF r.success THEN chain ELSE @]
                  /\ UNCHANGED <<pc, result>>
  /\ UNCHANGED <<cmd, inp, creds, tools, stderr, exitCode>>

\* a loop that looks a chain up a second time after its first failure
FindProbe_RetryOnce ==
  /\ cmd \in {"tx", "find"} /\ pc = "probe"
  /\ loc.idx <= Len(loc.chains)
  /\ \E resp \in TxResponses :
       LET chain == loc.chains[loc.idx]
           r == getEvmTransaction(creds, chain, resp)
           tried == Append(loc.triedChains, chain)
           again == Len(calls) < loc.idx
       IN /\ calls' = Append(calls, Call("etherscan", chain, r))
          /\ IF r.success
             THEN /\ loc' = [loc EXCEPT !.triedChains = tried, !.foundChain = chain,
                                        !.transactionChain = chain]
                  /\ IF cmd = "tx"
                     THEN pc' = "verbose" /\ UNCHANGED result
                     ELSE /\ pc' = "returned"
                          /\ result' = [kind |-> "find", success |-> TRUE, chain |-> chain,
                                        error |-> "", triedChains |-> <<>>]
             ELSE /\ loc' = IF again THEN loc
                            ELSE [loc EXCEPT !.triedChains = tried, !.idx = @ + 1]
                  /\ UNCHANGED <<pc, result>>
  /\ UNCHANGED <<cmd, inp, creds, tools, stderr, exitCode>>

\* a loop that records a chain as tried only when its lookup reached the network
FindProbe_PushWhenSent ==
  /\ cmd \in {"tx", "find"} /\ pc = "probe"
  /\ loc.idx <= Len(loc.chains)
  /\ \E resp \in TxResponses :
       LET chain == loc.chains[loc.idx]
           r == getEvmTransaction(creds, chain, resp)
           tried == IF r.net THEN Append(loc.triedChains, chain) ELSE loc.triedChains
       IN /\ calls' = Append(calls, Call("etherscan", chain, r))
          /\ IF r.success
             THEN /\ loc' = [loc EXCEPT !.triedChains = tried, !.foundChain = chain,
                                        !.transactionChain = chain]
                  /\ IF cmd = "tx"
                     THEN pc' = "verbose" /\ UNCHANGED result
                     ELSE /\ pc' = "returned"
                          /\ result' = [kind |-> "find", success |-> TRUE, chain |-> chain,
                                        error |-> "", triedChains |-> <<>>]
             ELSE /\ loc' = [loc EXCEPT !.triedChains = tried, !.idx = @ + 1]
                  /\ UNCHANGED <<pc, result>>
  /\ UNCHANGED <<cmd, inp, creds, tools, stderr, exitCode>>

FindProbe ==
  /\ cmd \in {"tx", "find"} /\ pc = "probe"
  /\ loc.idx <= Len(loc.chains)
  /\ \E resp \in TxResponses :
       LET chain == loc.chains[loc.idx]
           r == getEvmTransaction(creds, chain, resp)
           tried == Append(loc.triedChains, chain)
       IN /\ calls' = Append(calls, Call("etherscan", chain, r))
          /\ IF r.success
             THEN /\ loc' = [loc EXCEPT !.triedChains = tried, !.foundChain = chain,
                                        !.transactionChain = chain]
                  /\ IF cmd = "tx"
                     THEN pc' = "verbose" /\ UNCHANGED result
                     ELSE /\ pc' = "returned"
                          /\ result' = [kind |-> "find", success |-> TRUE, chain |-> chain,
                                        error |-> "", triedChains |-> <<>>]
             ELSE /\ loc' = [loc EXCEPT !.triedChains = tried, !.idx = @ + 1]
                  /\ UNCHANGED <<pc, result>>
  /\ UNCHANGED <<cmd, inp, creds, tools, stderr, exitCode>>

\* findEvmTransaction after the loop: every chain failed
FindExhausted ==
  /\ cmd \in {"tx", "find"} /\ pc = "probe"
  /\ loc.idx > Len(loc.chains)
  /\ IF cmd = "tx"
     THEN Die("Transaction not found on any chain. Tried") /\ UNCHANGED result
     ELSE /\ pc' = "returned"
          /\ result' = [kind |-> "find", success |-> FALSE, chain |-> Absent,
                        error |-> "Transaction not found on any chain. Tried",
                        triedChains |-> loc.triedChains]
          /\ UNCHANGED <<stderr, exitCode>>
  /\ UNCHANGED <<cmd, inp, creds, tools, loc, calls>>

\* lines 132-138: internal transactions in verbose mode, then the output
TxVerbose ==
  /\ cmd = "tx" /\ pc = "verbose"
  /\ IF inp.verbose /\ loc.transactionChain # Absent
     THEN calls' = Append(calls, Call("etherscan-internal", loc.transactionChain, Ok("etherscan", TRUE)))
     ELSE UNCHANGED calls
  /\ pc' = "output"
  /\ UNCHANGED <<cmd, inp, creds, tools, loc, stderr, result, exitCode>>

TxOutput ==
  /\ cmd = "tx" /\ pc = "output"
  /\ result' = [kind |-> "tx", source |-> "explorer", chain |-> loc.transactionChain, error |-> ""]
  /\ exitCode' = 0
  /\ pc' = "done"
  /\ UNCHANGED <<cmd, inp, creds, tools, loc, calls, stderr>>

InitTx ==
  /\ cmd = "tx"
  /\ inp \in TxInputs
  /\ \E e \in CredValues, o \in CredValues :
       creds = [NoCreds EXCEPT !.etherscanApiKey = e, !.solscanApiKey = o]
  /\ tools = NoTools
  /\ pc = "parse"
  /\ loc = TxLocals

\* sequences over S of length at most n
RECURSIVE SeqsUpTo(_, _)
SeqsUpTo(S, n) ==
  IF n = 0 THEN {<<>>}
  ELSE LET shorter == SeqsUpTo(S, n - 1)
       IN shorter \cup {Append(q, x) : q \in shorter, x \in S}

\* client.findEvmTransaction(hash, preferredChains?) called directly
InitFind ==
  /\ cmd = "find"
  /\ \E o \in {[given |-> FALSE, chains |-> <<>>]}
              \cup {[given |-> TRUE, chains |-> q] : q \in SeqsUpTo(VALID_CHAINS, MaxOverrideLen)} :
       /\ inp = [preferredChains |-> o]
       \* const chains = preferredChains ?? DEFAULT_CHAIN_ORDER
       /\ loc = [TxLocals EXCEPT !.chains = IF o.given THEN o.chains ELSE DEFAULT_CHAIN_ORDER]
  /\ \E e \in CredValues : creds = [NoCreds EXCEPT !.etherscanApiKey = e]
  /\ tools = NoTools
  /\ pc = "probe"

\* ----------------------------------------------------- sentiment engine
\* A market question is modelled by the set of cue phrases it contains; a
\* regular expression or an includes() test is membership of its cue.
TOPIC_EXPANSIONS(topic) ==
  IF topic = "btc" THEN <<"bitcoin", "btc">> ELSE <<>>

expandTopicToSearchTerms(topic) ==
  IF TOPIC_EXPANSIONS(topic) # <<>> THEN TOPIC_EXPANSIONS(topic) ELSE <<topic>>

\* TOPIC_KEYWORDS[topic] ?? [topic]
TOPIC_KEYWORDS(topic) ==
  IF topic = "btc" THEN {"bitcoin", "btc", "satoshi"} ELSE {topic}

isMarketRelevantToTopic(market, topic, searchTerms) ==
  \/ \E i \in 1..Len(searchTerms) : searchTerms[i] \in market.question
  \/ \E k \in TOPIC_KEYWORDS(topic) : k \in market.question

BULLISH_PATTERNS == {"above $", "rate cut", "win"}
BEARISH_PATTERNS == {"below $", "rate hike", "ban"}
NEUTRAL_OVERRIDE_PATTERNS == {"who will", "when will"}

\* Math.round of the rational n / d, d > 0: halves go up
Round(n, d) == (2 * n + d) \div (2 * d)

Abs(x) == IF x < 0 THEN -x ELSE x

\* the price of the outcome named yes or true, or 0.5 when there is none;
\* market.yes lists the prices of such outcomes, in hundredths
yesProbabilityOf(market) == IF market.yes = <<>> THEN 50 ELSE Head(market.yes)

questionSentimentOf(market) ==
  IF market.question \cap BULLISH_PATTERNS # {} THEN "bullish"
  ELSE IF market.question \cap BEARISH_PATTERNS # {} THEN "bearish"
  ELSE "neutral"

NoSignal == [none |-> TRUE]

\* lines 677-697: the signal of a market whose question has a direction
signalOf_DropNeutral(market, questionSentiment) ==
  LET yesProbability == yesProbabilityOf(market)
      signalSentiment ==
        IF questionSentiment = "bullish"
        THEN (IF yesProbability > 50 THEN "bullish"
              ELSE IF yesProbability < 30 THEN "bearish" ELSE "neutral")
        ELSE (IF yesProbability > 50 THEN "bearish"
              ELSE IF yesProbability < 30 THEN "bullish" ELSE "neutral")
  IN IF signalSentiment = "neutral" THEN NoSignal
     ELSE [none |-> FALSE, id |-> market.id, sentiment |-> signalSentiment,
           confidence |-> Round(Abs(yesProbability - 50) * 200, 100),
           probability |-> yesProbability, volume |-> market.volume]
signalOf(market, questionSentiment) ==
  LET yesProbability == yesProbabilityOf(market)
      signalSentiment ==
        IF questionSentiment = "bullish"
        THEN (IF yesProbability > 50 THEN "bullish"
              ELSE IF yesProbability < 30 THEN "bearish" ELSE "neutral")
        ELSE (IF yesProbability > 50 THEN "bearish"
              ELSE IF yesProbability < 30 THEN "bullish" ELSE "neutral")
  IN [none |-> FALSE, id |-> market.id, sentiment |-> signalSentiment,
      confidence |-> Round(Abs(yesProbability - 50) * 200, 100),
      probability |-> yesProbability, volume |-> market.volume]

\* null, or the signal of the market
analyzeMarketSentiment(market, topic, searchTerms) ==
  IF ~isMarketRelevantToTopic(market, topic, searchTerms) THEN NoSignal
  ELSE IF market.question \cap NEUTRAL_OVERRIDE_PATTERNS # {} THEN NoSignal
  ELSE IF questionSentimentOf(market) = "neutral" THEN NoSignal
  ELSE signalOf(market, questionSentimentOf(market))

\* Math.log10 on the powers of ten; market volumes are drawn as 10^k - 1 so
\* that every weight log10(volume + 1) is the integer k
RECURSIVE Log10(_)
Log10(n) == IF n <= 1 THEN 0 ELSE 1 + Log10(n \div 10)

RECURSIVE SumOver(_, _, _)
\* sum of f[i] over i in lo..hi
SumOver(f, lo, hi) == IF lo > hi THEN 0 ELSE f[lo] + SumOver(f, lo + 1, hi)

\* lines 700-766; weighted sums are kept in hundredths (weight * confidence)
calculateOverallSentiment_EqualWeights(topic, signals) ==
  LET n == Len(signals)
      weight == [i \in 1..n |-> 1]
      totalWeight == SumOver(weight, 1, n)
      weightedBullish ==
        SumOver([i \in 1..n |-> IF signals[i].sentiment = "bullish"
                                THEN weight[i] * signals[i].confidence ELSE 0], 1, n)
      weightedBearish ==
        SumOver([i \in 1..n |-> IF signals[i].sentiment = "bearish"
                                THEN weight[i] * signals[i].confidence ELSE 0], 1, n)
      sentimentScore == IF totalWeight > 0
                        THEN Round(weightedBullish - weightedBearish, totalWeight)
                        ELSE 0
      overallSentiment ==
        IF sentimentScore > 20 THEN "bullish"
        ELSE IF sentimentScore < -20 THEN "bearish"
        ELSE IF weightedBullish > 0 /\ weightedBearish > 0 THEN "mixed"
        ELSE "neutral"
      bullishCount == Cardinality({i \in 1..n : signals[i].sentiment = "bullish"})
      bearishCount == Cardinality({i \in 1..n : signals[i].sentiment = "bearish"})
      sumConfidence == SumOver([i \in 1..n |-> signals[i].confidence], 1, n)
      confidence == Round(100 * Abs(bullishCount - bearishCount) + sumConfidence, 2 * n)
  IN [topic |-> topic, overallSentiment |-> overallSentiment,
      sentimentScore |-> sentimentScore, confidence |-> confidence, signals |-> signals]
calculateOverallSentiment(topic, signals) ==
  LET n == Len(signals)
      weight == [i \in 1..n |-> Log10(signals[i].volume + 1)]
      totalWeight == SumOver(weight, 1, n)
      weightedBullish ==
        SumOver([i \in 1..n |-> IF signals[i].sentiment = "bullish"
                                THEN weight[i] * signals[i].confidence ELSE 0], 1, n)
      weightedBearish ==
        SumOver([i \in 1..n |-> IF signals[i].sentiment = "bearish"
                                THEN weight[i] * signals[i].confidence ELSE 0], 1, n)
      sentimentScore == IF totalWeight > 0
                        THEN Round(weightedBullish - weightedBearish, totalWeight)
                        ELSE 0
      overallSentiment ==
        IF sentimentScore > 20 THEN "bullish"
        ELSE IF sentimentScore < -20 THEN "bearish"
        ELSE IF weightedBullish > 0 /\ weightedBearish > 0 THEN "mixed"
        ELSE "neutral"
      bullishCount == Cardinality({i \in 1..n : signals[i].sentiment = "bullish"})
      bearishCount == Cardinality({i \in 1..n : signals[i].sentiment = "bearish"})
      sumConfidence == SumOver([i \in 1..n |-> signals[i].confidence], 1, n)
      confidence == Round(100 * Abs(bullishCount - bearishCount) + sumConfidence, 2 * n)
  IN [topic |-> topic, overallSentiment |-> overallSentiment,
      sentimentScore |-> sentimentScore, confidence |-> confidence, signals |-> signals]

\* signals.sort((a, b) => b.volume - a.volume): stable, largest volume first
RECURSIVE sortByVolume(_)
sortByVolume(signals) ==
  IF signals = <<>> THEN <<>>
  ELSE LET top == CHOOSE i \in 1..Len(signals) :
                    /\ \A j \in 1..Len(signals) : signals[j].volume <= signals[i].volume
                    /\ \A j \in 1..(i - 1) : signals[j].volume < signals[i].volume
           rest == [k \in 1..(Len(signals) - 1) |-> IF k < top THEN signals[k] ELSE signals[k + 1]]
       IN <<signals[top]>> \o sortByVolume(rest)

\* the markets of list that are not in acc yet, appended in order
RECURSIVE pushNew(_, _)
pushNew(acc, list) ==
  IF list = <<>> THEN acc
  ELSE LET m == Head(list)
           dup == \E i \in 1..Len(acc) : acc[i].id = m.id
       IN pushNew(IF ~dup THEN Append(acc, m) ELSE acc, Tail(list))

\* the markets the remote side may hold
MarketIds == {"m1", "m2"}
Questions ==
  { {"bitcoin", "above $"}, {"bitcoin", "ban"}, {"bitcoin", "above $", "ban"},
    {"bitcoin", "who will", "above $"}, {"bitcoin"}, {"doge", "above $"} }
YesPrices == {<<>>, <<29>>, <<30>>, <<50>>, <<90>>}
Volumes == {0, 9}
Markets == [id : MarketIds, question : Questions, yes : YesPrices, volume : Volumes]

\* what a market listing call returns: a failure, or the markets it found
MarketAnswers ==
  {[success |-> FALSE, markets |-> <<>>], [success |-> TRUE, markets |-> <<>>]}
  \cup {[success |-> TRUE, markets |-> <<m>>] : m \in Markets}

\* the remote side holds one market per id: a market that comes back a second
\* time is the market that came the first time
SameRemote(answer, seen) ==
  \A i \in 1..Len(answer.markets), j \in 1..Len(seen) :
    answer.markets[i].id = seen[j].id => answer.markets[i] = seen[j]

searchPolymarkets(answer) ==
  IF answer.success THEN Ok("polymarket", answer.markets = <<>>)
  ELSE Fail("Failed to search markets", TRUE)

getPolymarketTrending(answer) ==
  IF answer.success THEN Ok("polymarket", answer.markets = <<>>)
  ELSE Fail("Failed to fetch trending markets", TRUE)

\* options.limit: not given, or 1
SentimentInputs == [topic : {"btc", "doge"}, limit : {<<>>, <<1>>}]

SentimentLocals == [searchTerms |-> <<>>, termIdx |-> 1, allMarkets |-> <<>>]

\* signals of the markets, in order, nulls left out
RECURSIVE signalsOf(_, _, _)
signalsOf(markets, topic, searchTerms) ==
  IF markets = <<>> THEN <<>>
  ELSE LET s == analyzeMarketSentiment(Head(markets), topic, searchTerms)
           rest == signalsOf(Tail(markets), topic, searchTerms)
       IN IF s.none THEN rest ELSE <<s>> \o rest

\* lines 427-449: one search per expanded term, duplicates by id left out
\* a search phase that keeps only the hits relevant to the topic
SentimentSearch_RelevantOnly ==
  /\ cmd = "sentiment" /\ pc = "search"
  /\ \E answer \in MarketAnswers :
       LET searchTerms == expandTopicToSearchTerms(inp.topic)
           r == searchPolymarkets(answer)
           relevant(m) == isMarketRelevantToTopic(m, inp.topic, searchTerms)
       IN /\ SameRemote(answer, loc.allMarkets)
          /\ calls' = Append(calls, Call("polymarket-search", searchTerms[loc.termIdx], r))
          /\ loc' = [loc EXCEPT !.searchTerms = searchTerms,
                                !.termIdx = @ + 1,
                                !.allMarkets = IF r.success
                                               THEN pushNew(@, SelectSeq(answer.markets, relevant))
                                               ELSE @]
          /\ pc' = IF loc.termIdx >= Len(searchTerms) THEN "trending" ELSE "search"
  /\ UNCHANGED <<cmd, inp, creds, tools, stderr, result, exitCode>>

SentimentSearch ==
  /\ cmd = "sentiment" /\ pc = "search"
  /\ \E answer \in MarketAnswers :
       LET searchTerms == expandTopicToSearchTerms(inp.topic)
           r == searchPolymarkets(answer)
       IN /\ SameRemote(answer, loc.allMarkets)
          /\ calls' = Append(calls, Call("polymarket-search", searchTerms[loc.termIdx], r))
          /\ loc' = [loc EXCEPT !.searchTerms = searchTerms,
                                !.termIdx = @ + 1,
                                !.allMarkets = IF r.success THEN pushNew(@, answer.markets) ELSE @]
          /\ pc' = IF loc.termIdx >= Len(searchTerms) THEN "trending" ELSE "search"
  /\ UNCHANGED <<cmd, inp, creds, tools, stderr, result, exitCode>>

SentimentFailure(msg) ==
  [kind |-> "sentiment", success |-> FALSE, error |-> msg, sentiment |-> NoResult]

\* lines 451-497: the relevant trending markets join, then the verdict
SentimentTrending ==
  /\ cmd = "sentiment" /\ pc = "trending"
  /\ \E answer \in MarketAnswers :
       LET r == getPolymarketTrending(answer)
           relevant(m) == isMarketRelevantToTopic(m, inp.topic, loc.searchTerms)
           allMarkets == IF r.success
                         THEN pushNew(loc.allMarkets, SelectSeq(answer.markets, relevant))
                         ELSE loc.allMarkets
           signals == sortByVolume(signalsOf(allMarkets, inp.topic, loc.searchTerms))
           limit == IF inp.limit = <<>> THEN 20 ELSE Head(inp.limit)
           topSignals == SubSeq(signals, 1, IF Len(signals) < limit THEN Len(signals) ELSE limit)
       IN /\ SameRemote(answer, loc.allMarkets)
          /\ calls' = Append(calls, Call("polymarket-trending", "trending", r))
          /\ loc' = [loc EXCEPT !.allMarkets = allMarkets]
          /\ result' =
               IF allMarkets = <<>>
               THEN SentimentFailure("No prediction markets found for topic")
               ELSE IF signals = <<>>
               THEN SentimentFailure("Found markets for topic but couldn't extract sentiment signals")
               ELSE [kind |-> "sentiment", success |-> TRUE, error |-> "",
                     sentiment |-> calculateOverallSentiment(inp.topic, topSignals)]
  /\ pc' = "returned"
  /\ UNCHANGED <<cmd, inp, creds, tools, stderr, exitCode>>

InitSentiment ==
  /\ cmd = "sentiment"
  /\ inp \in SentimentInputs
  /\ creds = NoCreds
  /\ tools = NoTools
  /\ pc = "search"
  /\ loc = SentimentLocals

\* ------------------------------------------------- credential resolution
\* The secrets an invocation finds: in the environment, in the global and in
\* the local config file. Two secrets vary at a time, the others are unset.
SecretPairs ==
  { <<"binanceApiKey", "binanceApiSecret">>, <<"coinbaseApiKeyId", "coinbaseApiKeySecret">>,
    <<"debankApiKey", "etherscanApiKey">> }

EnvValues == {Absent, "", "from-env"}
LocalValues == {Absent, "", "from-local"}
GlobalValues == {Absent, "from-global"}

OnlyPair(pair, a, b) == [NoCreds EXCEPT ![pair[1]] = a, ![pair[2]] = b]

InitCredentials ==
  /\ cmd = "credentials"
  /\ \E pair \in SecretPairs :
       \E e1 \in EnvValues, e2 \in EnvValues, l1 \in LocalValues, l2 \in LocalValues,
          g1 \in GlobalValues, g2 \in GlobalValues, lp \in BOOLEAN :
         inp = [pair |-> pair,
                env |-> OnlyPair(pair, e1, e2),
                globalFile |-> [parses |-> TRUE, keys |-> OnlyPair(pair, g1, g2)],
                localFile |-> [parses |-> lp, keys |-> OnlyPair(pair, l1, l2)]]
  /\ creds = NoCreds
  /\ tools = NoTools
  /\ pc = "resolve"
  /\ loc = [config |-> NoCreds]

\* createCliContext: const config = loadConfig(warn)
CredentialsLoad ==
  /\ cmd = "credentials" /\ pc = "resolve"
  /\ loc' = [config |-> loadConfig(inp.globalFile, inp.localFile)]
  /\ stderr' = IF inp.localFile.parses THEN stderr
               ELSE Append(stderr, [level |-> "warn", text |-> "Failed to parse config", detail |-> ""])
  /\ pc' = "merge"
  /\ UNCHANGED <<cmd, inp, creds, tools, calls, result, exitCode>>

\* ctx.resolveCredentials()
CredentialsResolve ==
  /\ cmd = "credentials" /\ pc = "merge"
  /\ creds' = resolveCredentials(loc.config, inp.env)
  /\ pc' = "validate"
  /\ UNCHANGED <<cmd, inp, tools, loc, calls, stderr, result, exitCode>>

\* validateCredentials(creds)
CredentialsValidate ==
  /\ cmd = "credentials" /\ pc = "validate"
  /\ result' = [kind |-> "validation", flags |-> validateCredentials(creds)]
  /\ pc' = "returned"
  /\ UNCHANGED <<cmd, inp, creds, tools, loc, calls, stderr, exitCode>>

\* ---------------------------------------------------------- price command
COINGECKO_API_BASE == "https://api.coingecko.com/api/v3"
COINGECKO_PRO_API_BASE == "https://pro-api.coingecko.com/api/v3"

\* CoinGeckoMixin.getApiBase: the key picks the endpoint, nothing else
getApiBase(c) ==
  IF Truthy(c.coingeckoApiKey) THEN COINGECKO_PRO_API_BASE ELSE COINGECKO_API_BASE

PriceResponses == {"ok", "404", "http", "timeout"}

\* getTokenPrice has no credential guard: it always sends the request
getTokenPrice(c, resp) ==
  CASE resp = "ok"      -> Ok("coingecko", FALSE)
    [] resp = "404"     -> Fail("Token not found", TRUE)
    [] resp = "http"    -> Fail("CoinGecko API error", TRUE)
    [] resp = "timeout" -> Fail("Failed to fetch token price", TRUE)

cmcGetTokenPrice(c, resp) ==
  IF ~Truthy(c.coinmarketcapApiKey) THEN Fail("CoinMarketCap API key not configured", FALSE)
  ELSE CASE resp = "ok"      -> Ok("coinmarketcap", FALSE)
         [] resp = "404"     -> Fail("Token not found on CoinMarketCap", TRUE)
         [] resp = "http"    -> Fail("CoinMarketCap API error", TRUE)
         [] resp = "timeout" -> Fail("Failed to fetch token price", TRUE)

\* The credentials an invocation of a market command resolved.
MarketCreds ==
  { [NoCreds EXCEPT !.coingeckoApiKey = g, !.coinmarketcapApiKey = m] :
      g \in {Absent, "", "cg-key"}, m \in {Absent, "cmc-key"} }

\* registerPriceCommand: one getTokenPrice, exit 1 on failure
PriceCoinGecko ==
  /\ cmd = "price" /\ pc = "price"
  /\ \E resp \in PriceResponses :
       LET r == getTokenPrice(creds, resp)
       IN /\ calls' = Append(calls, Call("coingecko", "", r))
          /\ loc' = [loc EXCEPT !.apiBase = getApiBase(creds)]
          /\ IF r.success
             THEN pc' = "output" /\ UNCHANGED <<stderr, exitCode>>
             ELSE Die(r.error)
  /\ UNCHANGED <<cmd, inp, creds, tools, result>>

PriceOutput ==
  /\ cmd = "price" /\ pc = "output"
  /\ result' = [kind |-> "price", source |-> "coingecko", token |-> inp.token]
  /\ exitCode' = 0
  /\ pc' = "done"
  /\ UNCHANGED <<cmd, inp, creds, tools, loc, calls, stderr>>

InitPrice ==
  /\ cmd = "price"
  /\ inp \in [token : {"btc", "nope"}]
  /\ creds \in MarketCreds
  /\ tools = NoTools
  /\ pc = "price"
  /\ loc = [apiBase |-> ""]

\* ----------------------------------------------------- config show command
\* config show --json: credentials are the flags of validateCredentials
ConfigShow ==
  /\ cmd = "config" /\ pc = "show"
  /\ result' = [kind |-> "config", credentials |-> validateCredentials(creds)]
  /\ exitCode' = 0
  /\ pc' = "done"
  /\ UNCHANGED <<cmd, inp, creds, tools, loc, calls, stderr>>

InitConfigShow ==
  /\ cmd = "config"
  /\ inp = [json |-> TRUE]
  /\ creds \in MarketCreds
  /\ tools = NoTools
  /\ pc = "show"
  /\ loc = [apiBase |-> ""]

\* ------------------------------------------- test command, price providers
\* runTest(name, isConfigured, testFn) without a fallbackFn
runTest(name, isConfigured, r) ==
  IF ~isConfigured THEN [provider |-> name, status |-> "skip", message |-> "Not configured"]
  ELSE [provider |-> name, status |-> IF r.success THEN "ok" ELSE "fail", message |-> r.error]

\* runTest('CoinGecko', true, ...)
TestCoinGecko_WhenConfigured ==
  /\ cmd = "test" /\ pc = "test.coingecko"
  /\ \E resp \in PriceResponses :
       LET r == getTokenPrice(creds, resp)
           configured == validateCredentials(creds).hasCoinGecko
       IN /\ calls' = IF configured THEN Append(calls, Call("coingecko", "", r)) ELSE calls
          /\ loc' = [loc EXCEPT !.apiBase = IF configured THEN getApiBase(creds) ELSE @,
                                !.results = Append(@, runTest("CoinGecko", configured, r))]
  /\ pc' = "test.coinmarketcap"
  /\ UNCHANGED <<cmd, inp, creds, tools, stderr, result, exitCode>>

TestCoinGecko ==
  /\ cmd = "test" /\ pc = "test.coingecko"
  /\ \E resp \in PriceResponses :
       LET r == getTokenPrice(creds, resp)
       IN /\ calls' = Append(calls, Call("coingecko", "", r))
          /\ loc' = [loc EXCEPT !.apiBase = getApiBase(creds),
                                !.results = Append(@, runTest("CoinGecko", TRUE, r))]
  /\ pc' = "test.coinmarketcap"
  /\ UNCHANGED <<cmd, inp, creds, tools, stderr, result, exitCode>>

\* runTest('CoinMarketCap', validation.hasCoinMarketCap, ...)
TestCoinMarketCap ==
  /\ cmd = "test" /\ pc = "test.coinmarketcap"
  /\ \E resp \in PriceResponses :
       LET r == cmcGetTokenPrice(creds, resp)
           configured == validateCredentials(creds).hasCoinMarketCap
       IN /\ calls' = IF configured THEN Append(calls, Call("coinmarketcap", "", r)) ELSE calls
          /\ loc' = [loc EXCEPT !.results = Append(@, runTest("CoinMarketCap", configured, r))]
  /\ pc' = "test.summary"
  /\ UNCHANGED <<cmd, inp, creds, tools, stderr, result, exitCode>>

\* the summary, then process.exit(1) if any test failed
TestSummary ==
  /\ cmd = "test" /\ pc = "test.summary"
  /\ result' = [kind |-> "test", results |-> loc.results]
  /\ exitCode' = IF \E i \in 1..Len(loc.results) : loc.results[i].status = "fail" THEN 1 ELSE 0
  /\ pc' = "done"
  /\ UNCHANGED <<cmd, inp, creds, tools, loc, calls, stderr>>

InitTestPrices ==
  /\ cmd = "test"
  /\ inp = [json |-> TRUE]
  /\ creds \in MarketCreds
  /\ tools = NoTools
  /\ pc = "test.coingecko"
  /\ loc = [apiBase |-> "", results |-> <<>>]

\* ------------------------------------------------------ portfolio command
getEvmDefiPositions(c, resp) ==
  IF ~Truthy(c.debankApiKey) THEN Fail("DeBank API key not configured", FALSE)
  ELSE CASE resp = "ok"      -> Ok("debank", FALSE)
         [] resp = "empty"   -> Ok("debank", TRUE)
         [] resp = "http"    -> Fail("DeBank API error", TRUE)
         [] resp = "timeout" -> Fail("Failed to fetch DeFi positions", TRUE)

getEvmNfts(c, resp) ==
  IF ~Truthy(c.debankApiKey) THEN Fail("DeBank API key not configured", FALSE)
  ELSE CASE resp = "ok"      -> Ok("debank", FALSE)
         [] resp = "empty"   -> Ok("debank", TRUE)
         [] resp = "http"    -> Fail("DeBank API error", TRUE)
         [] resp = "timeout" -> Fail("Failed to fetch EVM NFTs", TRUE)

getSolanaNfts(c, resp) ==
  IF ~Truthy(c.heliusApiKey) THEN Fail("Helius API key not configured", FALSE)
  ELSE CASE resp = "ok"      -> Ok("helius", FALSE)
         [] resp = "empty"   -> Ok("helius", TRUE)
         [] resp = "http"    -> Fail("Helius API error", TRUE)
         [] resp = "timeout" -> Fail("Failed to fetch Solana NFTs", TRUE)

\* portfolioData as first built: tokens {0, 0, []}, no defi, no nfts
PortfolioLocals == [tokensFrom |-> "", defiFrom |-> "", nftsFrom |-> ""]

\* address check and credential check of registerPortfolioCommand
PortfolioValidate ==
  /\ cmd = "portfolio" /\ pc = "validate"
  /\ LET validation == validateCredentials(creds)
     IN IF inp.chainType = "invalid"
        THEN Die("Invalid address format. Expected EVM (0x...) or Solana address.")
        ELSE IF inp.chainType = "evm" /\ ~validation.hasDebank
        THEN Die(getMissingCredentialsMessage("EVM portfolio data", <<"debank">>))
        ELSE IF inp.chainType = "solana" /\ ~validation.hasHelius
        THEN Die(getMissingCredentialsMessage("Solana portfolio data", <<"helius">>))
        ELSE pc' = "balances" /\ UNCHANGED <<stderr, exitCode>>
  /\ UNCHANGED <<cmd, inp, creds, tools, loc, calls, result>>

\* a failed call of the portfolio command leaves portfolioData as it was and
\* is reported nowhere
PortfolioTake(field, r, next) ==
  /\ loc' = IF r.success THEN [loc EXCEPT ![field] = r.from] ELSE loc
  /\ pc' = next
  /\ UNCHANGED <<stderr, exitCode>>

PortfolioBalances ==
  /\ cmd = "portfolio" /\ pc = "balances"
  /\ \E resp \in Responses :
       LET r == IF inp.chainType = "evm" THEN getEvmBalances(creds, resp)
                ELSE getSolanaBalances(creds, resp)
       IN /\ calls' = Append(calls, Call(IF inp.chainType = "evm" THEN "debank" ELSE "helius",
                                         "balances", r))
          /\ PortfolioTake("tokensFrom", r, IF inp.chainType = "evm" THEN "defi" ELSE "nfts")
  /\ UNCHANGED <<cmd, inp, creds, tools, result>>

PortfolioDefi ==
  /\ cmd = "portfolio" /\ pc = "defi"
  /\ \E resp \in Responses :
       LET r == getEvmDefiPositions(creds, resp)
       IN /\ calls' = Append(calls, Call("debank", "defi", r))
          /\ PortfolioTake("defiFrom", r, "nfts")
  /\ UNCHANGED <<cmd, inp, creds, tools, result>>

PortfolioNfts ==
  /\ cmd = "portfolio" /\ pc = "nfts"
  /\ \E resp \in Responses :
       LET r == IF inp.chainType = "evm" THEN getEvmNfts(creds, resp)
                ELSE getSolanaNfts(creds, resp)
       IN /\ calls' = Append(calls, Call(IF inp.chainType = "evm" THEN "debank" ELSE "helius",
                                         "nfts", r))
          /\ PortfolioTake("nftsFrom", r, "output")
  /\ UNCHANGED <<cmd, inp, creds, tools, result>>

\* ctx.outputJson(portfolioData) or the terminal view; the action returns
PortfolioOutput ==
  /\ cmd = "portfolio" /\ pc = "output"
  /\ result' = [kind |-> "portfolio", tokensFrom |-> loc.tokensFrom,
                defiFrom |-> loc.defiFrom, nftsFrom |-> loc.nftsFrom]
  /\ exitCode' = 0
  /\ pc' = "done"
  /\ UNCHANGED <<cmd, inp, creds, tools, loc, calls, stderr>>

InitPortfolio ==
  /\ cmd = "portfolio"
  /\ inp \in [chainType : {"evm", "solana", "invalid"}]
  /\ creds \in { [NoCreds EXCEPT !.debankApiKey = d, !.heliusApiKey = h] :
                   d \in {Absent, "debank-key"}, h \in {Absent, "", "helius-key"} }
  /\ tools = NoTools
  /\ pc = "validate"
  /\ loc = PortfolioLocals

\* -------------------------------------------------- browser scraping call
\* scrapeDebankProfile / scrapeSolscanProfile, one agent-browser command per
\* step. loc.session is the session name of the call, loc.browser says whether
\* a browser of that session exists ("none", "open", "closed"), loc.cmds lists
\* the agent-browser commands run so far.
SessionNames == {"onchain-1a2b3c4d", "onchain-9f8e7d6c", "onchain-00000000"}

\* what `eval` prints: the JSON the script builds, JSON without a balances
\* array, or text that is not JSON
EvalOutputs == {"json", "no-balances", "garbage"}

Cmd(session, verb, ok) == [session |-> session, verb |-> verb, ok |-> ok]

\* closeBrowser(session): run `close` with a 5 s limit and ignore its failure
closeBrowser(l, closes) ==
  [l EXCEPT !.cmds = Append(@, Cmd(l.session, "close", closes)),
            !.browser = IF closes /\ @ = "open" THEN "closed" ELSE @]

\* const session = generateSessionName()
ScrapeStart ==
  /\ cmd = "scrape" /\ pc = "start"
  /\ \E name \in SessionNames : loc' = [loc EXCEPT !.session = name]
  /\ pc' = "open"
  /\ UNCHANGED <<cmd, inp, creds, tools, calls, stderr, result, exitCode>>

\* runAgentBrowser(session, ['open', url], timeoutMs): it works, it fails before
\* a browser exists, or it fails (times out) with the browser launched
ScrapeOpen ==
  /\ cmd = "scrape" /\ pc = "open"
  /\ \E ok \in BOOLEAN, launched \in BOOLEAN :
       /\ ok => launched
       /\ loc' = [loc EXCEPT !.cmds = Append(@, Cmd(loc.session, "open", ok)),
                             !.browser = IF launched THEN "open" ELSE @]
       /\ pc' = IF ok THEN "eval" ELSE "catch"
  /\ UNCHANGED <<cmd, inp, creds, tools, calls, stderr, result, exitCode>>

\* runAgentBrowser(session, ['eval', SCRIPT], timeoutMs), then JSON.parse
ScrapeEval ==
  /\ cmd = "scrape" /\ pc = "eval"
  /\ \E ok \in BOOLEAN, out \in EvalOutputs :
       /\ loc' = [loc EXCEPT !.cmds = Append(@, Cmd(loc.session, "eval", ok)),
                             !.output = IF ok THEN out ELSE @]
       /\ pc' = IF ok /\ out # "garbage" THEN "close" ELSE "catch"
  /\ UNCHANGED <<cmd, inp, creds, tools, calls, stderr, result, exitCode>>

\* try block after the parse: closeBrowser(session), data.balances.map(...),
\* return {success: true, ...}; the map throws when balances is missing
ScrapeCloseAndReturn ==
  /\ cmd = "scrape" /\ pc = "close"
  /\ \E closes \in BOOLEAN :
       /\ loc' = closeBrowser(loc, closes)
       /\ IF loc.output = "no-balances"
          THEN pc' = "catch" /\ UNCHANGED result
          ELSE /\ result' = [kind |-> "scrape", success |-> TRUE, error |-> "",
                             source |-> IF inp.chainType = "evm" THEN "debank" ELSE "solscan"]
               /\ pc' = "returned"
  /\ UNCHANGED <<cmd, inp, creds, tools, calls, stderr, exitCode>>

\* catch (error) { return {success: false, ...} } without the closeBrowser
ScrapeCatch_NoClose ==
  /\ cmd = "scrape" /\ pc = "catch"
  /\ result' = [kind |-> "scrape", success |-> FALSE, error |-> "Browser scraping failed",
                source |-> ""]
  /\ pc' = "returned"
  /\ UNCHANGED <<cmd, inp, creds, tools, loc, calls, stderr, exitCode>>

\* catch (error) { closeBrowser(session); return {success: false, ...} }
ScrapeCatch ==
  /\ cmd = "scrape" /\ pc = "catch"
  /\ \E closes \in BOOLEAN : loc' = closeBrowser(loc, closes)
  /\ result' = [kind |-> "scrape", success |-> FALSE, error |-> "Browser scraping failed",
                source |-> ""]
  /\ pc' = "returned"
  /\ UNCHANGED <<cmd, inp, creds, tools, calls, stderr, exitCode>>

InitScrape ==
  /\ cmd = "scrape"
  /\ inp \in [chainType : {"evm", "solana"}]
  /\ creds = NoCreds
  /\ tools = [nansen |-> FALSE, agentBrowser |-> TRUE]
  /\ pc = "start"
  /\ loc = [session |-> "", browser |-> "none", cmds |-> <<>>, output |-> ""]

\* ---------------------------------------------------- wallet session store
\* The session file (loc.file) is absent, holds the JSON of a session, or holds
\* a cut-off text that does not parse. Time is counted in ticks of half a
\* second; Date.now() is in milliseconds and session.expiry in seconds.
MaxTicks == 6

NowMs == loc.tick * 500

NoFile == [kind |-> "none", session |-> <<>>]
TruncatedFile == [kind |-> "truncated", session |-> <<>>]

\* deleteSession(): unlink the file if it exists
deleteSession(file) == NoFile

\* saveSession(session): write JSON.stringify(session)
saveSession(session) == [kind |-> "json", session |-> <<session>>]

\* loadSession() without its expiry test
loadSession_NoExpiryCheck(file, now) ==
  IF file.kind = "none" THEN [session |-> <<>>, file |-> file]
  ELSE IF file.kind = "truncated" THEN [session |-> <<>>, file |-> deleteSession(file)]
  ELSE [session |-> file.session, file |-> file]

\* loadSession(): the session read and the file as the call leaves it
loadSession(file, now) ==
  IF file.kind = "none" THEN [session |-> <<>>, file |-> file]
  ELSE IF file.kind = "truncated" THEN [session |-> <<>>, file |-> deleteSession(file)]
  ELSE LET session == file.session[1]
       IN IF session.expiry # 0 /\ now > session.expiry * 1000
          THEN [session |-> <<>>, file |-> deleteSession(file)]
          ELSE [session |-> <<session>>, file |-> file]

\* session.expiry of a session the wallet has just approved: the second that
\* follows the current one
approvedExpiry(now) == (now \div 1000) + 1

\* CHAIN_ID_MAP[chainName.toLowerCase()]; 0 stands for undefined
CHAIN_ID_MAP(chainName) ==
  LET name == toLowerCase(chainName)
  IN CASE name = "ethereum" -> 1
       [] name = "polygon"  -> 137
       [] name = "base"     -> 8453
       [] OTHER             -> 0

\* a wallet method returned: its result, the file it leaves, and for the
\* properties the file it found, the file it left, the method that returned
\* before it and the time of the call
WalletReturn(r, file) ==
  /\ result' = r
  /\ loc' = [loc EXCEPT !.file = file, !.fileBefore = loc.file, !.fileAfter = file,
                        !.prevOp = result.kind, !.at = NowMs]
  /\ UNCHANGED <<cmd, inp, creds, tools, pc, calls, stderr, exitCode>>

\* `remote` is not part of the returned value: it notes what the wallet side
\* answered to the request of the call, "none" when none was sent
WalletResult(op, ok, err) ==
  [kind |-> op, success |-> ok, error |-> err, connected |-> FALSE, session |-> <<>>,
   remote |-> "none"]

\* walletConnect(options)
WalletConnect ==
  /\ cmd = "wallet"
  /\ LET loaded == loadSession(loc.file, NowMs)
     IN IF loaded.session # <<>>
        THEN WalletReturn([WalletResult("walletConnect", TRUE, "") EXCEPT
                             !.connected = TRUE, !.session = loaded.session], loaded.file)
        ELSE \E answer \in {"evm", "solana", "no-uri", "no-accounts", "throws"} :
               IF ~inp.projectId \/ answer = "throws"
               THEN WalletReturn(WalletResult("walletConnect", FALSE, "WalletConnect error"),
                                 deleteSession(loaded.file))
               ELSE IF answer = "no-uri"
               THEN WalletReturn(WalletResult("walletConnect", FALSE,
                                   "Failed to generate WalletConnect URI"), loaded.file)
               ELSE IF answer = "no-accounts"
               THEN WalletReturn(WalletResult("walletConnect", FALSE,
                                   "No accounts returned from wallet"), loaded.file)
               ELSE LET wcSession ==
                          [topic |-> "topic",
                           chainType |-> IF answer = "evm" THEN "eip155" ELSE "solana",
                           chainId |-> IF answer = "evm" THEN <<1>> ELSE <<>>,
                           expiry |-> approvedExpiry(NowMs)]
                    IN WalletReturn([WalletResult("walletConnect", TRUE, "") EXCEPT
                                       !.connected = TRUE, !.session = <<wcSession>>],
                                    saveSession(wcSession))

\* walletDisconnect() that keeps the file when the remote disconnect fails
WalletDisconnect_KeepOnRemoteFailure ==
  /\ cmd = "wallet"
  /\ LET loaded == loadSession(loc.file, NowMs)
     IN IF loaded.session = <<>>
        THEN WalletReturn(WalletResult("walletDisconnect", TRUE, ""), loaded.file)
        ELSE \E remoteOk \in BOOLEAN :
               IF inp.projectId /\ remoteOk
               THEN WalletReturn([WalletResult("walletDisconnect", TRUE, "") EXCEPT
                                    !.remote = "ok"], deleteSession(loaded.file))
               ELSE WalletReturn([WalletResult("walletDisconnect", FALSE, "Disconnect error")
                                    EXCEPT !.remote = "failed"], loaded.file)

\* walletDisconnect(): errors of getSignClient and client.disconnect are ignored
WalletDisconnect ==
  /\ cmd = "wallet"
  /\ LET loaded == loadSession(loc.file, NowMs)
     IN IF loaded.session = <<>>
        THEN WalletReturn(WalletResult("walletDisconnect", TRUE, ""), loaded.file)
        ELSE \E remoteOk \in BOOLEAN :
               WalletReturn([WalletResult("walletDisconnect", TRUE, "") EXCEPT
                               !.remote = IF inp.projectId /\ remoteOk THEN "ok" ELSE "failed"],
                            deleteSession(loaded.file))

\* walletStatus()
WalletStatus ==
  /\ cmd = "wallet"
  /\ LET loaded == loadSession(loc.file, NowMs)
     IN WalletReturn([WalletResult("walletStatus", TRUE, "") EXCEPT
                        !.connected = loaded.session # <<>>, !.session = loaded.session],
                     loaded.file)

\* walletSendEvm(options)
WalletSendEvm ==
  /\ cmd = "wallet"
  /\ LET loaded == loadSession(loc.file, NowMs)
     IN IF loaded.session = <<>>
        THEN WalletReturn(WalletResult("walletSendEvm", FALSE, "No wallet connected"),
                          loaded.file)
        ELSE IF loaded.session[1].chainType # "eip155"
        THEN WalletReturn(WalletResult("walletSendEvm", FALSE,
                            "Connected wallet is not an EVM wallet"), loaded.file)
        ELSE \E answer \in {"sent", "rejected", "error"} :
               IF ~inp.projectId \/ answer = "error"
               THEN WalletReturn([WalletResult("walletSendEvm", FALSE, "Send transaction error")
                                    EXCEPT !.remote = IF inp.projectId THEN answer ELSE "none"],
                                 loaded.file)
               ELSE IF answer = "rejected"
               THEN WalletReturn([WalletResult("walletSendEvm", FALSE,
                                    "Transaction rejected by user") EXCEPT !.remote = answer],
                                 loaded.file)
               ELSE WalletReturn([WalletResult("walletSendEvm", TRUE, "") EXCEPT
                                    !.remote = answer], loaded.file)

SwitchChainNames == {"polygon", "BASE", "nochain"}
SwitchAnswers == {"accepted", "4902", "rejected", "error"}

\* walletSwitchChain(chainName) that stores the new chain before it asks
WalletSwitchChain_SaveFirst ==
  /\ cmd = "wallet"
  /\ \E chainName \in SwitchChainNames, answer \in SwitchAnswers :
       LET loaded == loadSession(loc.file, NowMs)
           chainId == CHAIN_ID_MAP(chainName)
           switched == saveSession([loaded.session[1] EXCEPT !.chainId = <<chainId>>])
           Failure(err, remote, file) ==
             WalletReturn([WalletResult("walletSwitchChain", FALSE, err) EXCEPT
                             !.remote = remote], file)
       IN IF loaded.session = <<>>
          THEN Failure("No wallet connected", "none", loaded.file)
          ELSE IF loaded.session[1].chainType # "eip155"
          THEN Failure("Chain switching only supported for EVM wallets", "none", loaded.file)
          ELSE IF chainId = 0
          THEN Failure("Unknown chain", "none", loaded.file)
          ELSE IF ~inp.projectId
          THEN Failure("Switch chain error", "none", switched)
          ELSE IF answer = "4902"
          THEN Failure("Chain not configured in wallet. Please add it manually.", answer, switched)
          ELSE IF answer = "rejected"
          THEN Failure("Chain switch rejected by user", answer, switched)
          ELSE IF answer = "error"
          THEN Failure("Switch chain error", answer, switched)
          ELSE WalletReturn([WalletResult("walletSwitchChain", TRUE, "") EXCEPT
                               !.remote = answer, !.session = switched.session], switched)

\* walletSwitchChain(chainName)
WalletSwitchChain ==
  /\ cmd = "wallet"
  /\ \E chainName \in SwitchChainNames, answer \in SwitchAnswers :
       LET loaded == loadSession(loc.file, NowMs)
           chainId == CHAIN_ID_MAP(chainName)
           Failure(err, remote) ==
             WalletReturn([WalletResult("walletSwitchChain", FALSE, err) EXCEPT
                             !.remote = remote], loaded.file)
       IN IF loaded.session = <<>>
          THEN Failure("No wallet connected", "none")
          ELSE IF loaded.session[1].chainType # "eip155"
          THEN Failure("Chain switching only supported for EVM wallets", "none")
          ELSE IF chainId = 0
          THEN Failure("Unknown chain", "none")
          ELSE IF ~inp.projectId
          THEN Failure("Switch chain error", "none")
          ELSE IF answer = "4902"
          THEN Failure("Chain not configured in wallet. Please add it manually.", answer)
          ELSE IF answer = "rejected"
          THEN Failure("Chain switch rejected by user", answer)
          ELSE IF answer = "error"
          THEN Failure("Switch chain error", answer)
          ELSE LET session == [loaded.session[1] EXCEPT !.chainId = <<chainId>>]
               IN WalletReturn([WalletResult("walletSwitchChain", TRUE, "") EXCEPT
                                  !.remote = answer, !.session = <<session>>],
                               saveSession(session))

\* time passes between two wallet commands
WalletTick ==
  /\ cmd = "wallet"
  /\ loc.tick < MaxTicks
  /\ loc' = [loc EXCEPT !.tick = @ + 1]
  /\ UNCHANGED <<cmd, inp, creds, tools, pc, calls, stderr, result, exitCode>>

\* the session file is cut off outside the program (a write that did not
\* complete, an edit by hand): what is left does not parse as JSON
SessionFileTruncated ==
  /\ cmd = "wallet"
  /\ loc.file.kind = "json"
  /\ loc' = [loc EXCEPT !.file = TruncatedFile]
  /\ UNCHANGED <<cmd, inp, creds, tools, pc, calls, stderr, result, exitCode>>

InitWallet ==
  /\ cmd = "wallet"
  /\ inp \in [projectId : BOOLEAN]
  /\ creds = NoCreds
  /\ tools = NoTools
  /\ pc = "idle"
  /\ loc = [file |-> NoFile, fileBefore |-> NoFile, fileAfter |-> NoFile, prevOp |-> "none",
            at |-> 0, tick |-> 0]

\* ------------------------------------------- EVM transaction detail fields
\* getEvmTransaction after the transaction was found: the receipt and the
\* block are fetched and the fields of the result derived from the three
\* answers. Optional values are <<>> (absent) or <<v>>.
TxAnswers == [blockNumber : {<<>>, <<7>>}]

\* receiptData.result: undefined (also when the response was not ok), or a
\* receipt with its status ("" when the chain gives none) and block reference
NoReceipt == [exists |-> FALSE, status |-> "", blockNumber |-> <<>>]
ReceiptAnswers ==
  {NoReceipt} \cup
  [exists : {TRUE}, status : {"", "0x1", "0x0"}, blockNumber : {<<>>, <<7>>}]

\* blockData.result?.timestamp, <<>> when the block call failed or has none
BlockAnswers == {<<>>, <<90>>}

\* Math.floor(Date.now() / 1000) at the two times the command is run
ClockTimes == {100, 160}

\* lines 242-251 with the second test left out
statusOf_NeedsStatusField(receipt) ==
  IF receipt.exists /\ receipt.status # ""
  THEN IF receipt.status = "0x1" THEN "success" ELSE "failed"
  ELSE "pending"

\* lines 242-251: the status of the transaction
statusOf(receipt) ==
  IF receipt.exists /\ receipt.status # ""
  THEN IF receipt.status = "0x1" THEN "success" ELSE "failed"
  ELSE IF receipt.exists /\ receipt.blockNumber # <<>>
  THEN "success"
  ELSE "pending"

\* lines 208-228: the block's timestamp, else the time of the call
timestampOf(tx, block, now) ==
  IF tx.blockNumber # <<>> /\ block # <<>> THEN block[1] ELSE now

\* the TransactionDetail fields that depend on the receipt and the block
transactionDetail(tx, receipt, block, now) ==
  [blockNumber |-> IF tx.blockNumber # <<>> THEN tx.blockNumber[1] ELSE 0,
   timestamp |-> timestampOf(tx, block, now),
   status |-> statusOf(receipt)]

\* one run of getEvmTransaction on the answers of inp, at the time loc.now
TxDetailRun ==
  /\ cmd = "txdetail" /\ Len(loc.runs) < 2
  /\ loc' = [loc EXCEPT
               !.runs = Append(@, transactionDetail(inp.tx, inp.receipt, inp.block, loc.now))]
  /\ result' = [kind |-> "txdetail", success |-> TRUE, error |-> "",
                transaction |-> transactionDetail(inp.tx, inp.receipt, inp.block, loc.now)]
  /\ UNCHANGED <<cmd, inp, creds, tools, pc, calls, stderr, exitCode>>

\* time passes between the two runs
TxDetailClock ==
  /\ cmd = "txdetail"
  /\ \E later \in ClockTimes : later > loc.now /\ loc' = [loc EXCEPT !.now = later]
  /\ UNCHANGED <<cmd, inp, creds, tools, pc, calls, stderr, result, exitCode>>

InitTxDetail ==
  /\ cmd = "txdetail"
  /\ inp \in [tx : TxAnswers, receipt : ReceiptAnswers, block : BlockAnswers]
  /\ creds = [NoCreds EXCEPT !.etherscanApiKey = "key"]
  /\ tools = NoTools
  /\ pc = "idle"
  /\ loc = [now |-> 100, runs |-> <<>>]

\* ------------------------------------------------------------ parseTxInput
\* one application of parseTxInput to a text
ParseTx ==
  /\ cmd = "parse" /\ pc = "parse"
  /\ result' = [kind |-> "parsed", success |-> TRUE, error |-> "",
                parsed |-> parseTxInput(inp.text)]
  /\ pc' = "returned"
  /\ UNCHANGED <<cmd, inp, creds, tools, loc, calls, stderr, exitCode>>

InitParse ==
  /\ cmd = "parse"
  /\ inp \in [text : ParseTexts]
  /\ creds = NoCreds
  /\ tools = NoTools
  /\ pc = "parse"
  /\ loc = [source |-> "parse"]

\* ------------------------------------------------------------ properties
Finished == pc \in {"done", "returned"}
Failed == (pc = "done" /\ exitCode = 1) \/ (pc = "returned" /\ ~result.success)
Succeeded == (pc = "done" /\ exitCode = 0) \/ (pc = "returned" /\ result.success)

CallIdx == 1..Len(calls)
Invoked(p) == \E i \in CallIdx : calls[i].provider = p
ApiProvider == IF inp.chainType = "evm" THEN "debank" ELSE "helius"
ScrapeProviders == {"debank-page", "solscan-page"}
\* positions of the single-chain explorer lookups among the calls
Lookups == {i \in CallIdx : calls[i].provider = "etherscan"}

\* every error text the user was shown: stderr lines, the provider messages
\* quoted inside them, and the error of a returned failure value
Reported ==
  {stderr[i].text : i \in 1..Len(stderr)} \cup {stderr[i].detail : i \in 1..Len(stderr)}
  \cup (IF pc = "returned" THEN {result.error} ELSE {})

\* the top-level error: the text of the error lines, or the returned error
TopLevelErrors ==
  {stderr[i].text : i \in {j \in 1..Len(stderr) : stderr[j].level = "err"}}
  \cup (IF pc = "returned" THEN {result.error} ELSE {})

\* C1: in the balance and history commands, once a provider call has returned
\* success no further provider is invoked: a successful call is always the
\* last call of the invocation.
C1_SuccessIsLastCall ==
  cmd \in {"balance", "history"} =>
    \A i \in CallIdx : calls[i].r.success => i = Len(calls)

\* C1 witness: Nansen answered, the API key and the scraping tool were both
\* there to be used, and the command finished with Nansen as its only call.
C1_Witness ==
  /\ cmd = "balance" /\ pc = "done" /\ exitCode = 0
  /\ Len(calls) = 1 /\ calls[1].provider = "nansen" /\ calls[1].r.success
  /\ hasApiKey /\ tools.agentBrowser /\ calls[1].r.empty

\* C2 (as claimed): when the balance command fails after Nansen was tried,
\* the chain-specific API was tried too, and so was the scraping fallback
\* whenever the scraping tool is installed.
C2_FailsOnlyAfterAllTried ==
  (cmd = "balance" /\ pc = "done" /\ exitCode = 1 /\ Invoked("nansen")) =>
    /\ Invoked(ApiProvider)
    /\ (tools.agentBrowser => \E p \in ScrapeProviders : Invoked(p))

C5_ScrapeOnlyAsLastResort ==
  \A i \in CallIdx :
    calls[i].provider \in ScrapeProviders =>
      /\ tools.agentBrowser
      /\ \A j \in CallIdx : j # i => ~calls[j].r.success

\* C5 witness: a scraping session was started.
C5_Witness ==
  /\ cmd = "balance" /\ \E i \in CallIdx : calls[i].provider \in ScrapeProviders

\* the credential(s) a provider method needs
Configured(provider) ==
  CASE provider = "debank"    -> Truthy(creds.debankApiKey)
    [] provider = "helius"    -> Truthy(creds.heliusApiKey)
    [] provider = "zerion"    -> Truthy(creds.zerionApiKey)
    [] provider = "binance"   -> Truthy(creds.binanceApiKey) /\ Truthy(creds.binanceApiSecret)
    [] provider = "etherscan" -> Truthy(creds.etherscanApiKey)
    [] provider = "solscan"   -> Truthy(creds.solscanApiKey)
    [] OTHER -> TRUE

\* the chain the caller supplied to `tx`: a valid --chain value, else the
\* chain of a recognised EVM explorer URL
SuppliedChain ==
  IF cmd # "tx" \/ parseTxInput(inp.text).type # "evm" THEN Absent
  ELSE IF inp.chain # Absent
       THEN (IF toLowerCase(inp.chain) \in VALID_CHAINS THEN toLowerCase(inp.chain) ELSE Absent)
       ELSE IF parseTxInput(inp.text).chain \in VALID_CHAINS
            THEN parseTxInput(inp.text).chain ELSE Absent

\* a command that has one provider and no probe loop
SingleProviderRun ==
  \/ cmd = "binance"
  \/ cmd = "tx" /\ parseTxInput(inp.text).type = "solana"
  \/ SuppliedChain # Absent

\* C6: a provider method whose credential is absent returns a not-configured
\* failure without touching the network, and a single-provider command
\* (Binance balance with only one half of the key pair, a single-chain or
\* Solana lookup without its key) ends with that not-configured error and no
\* network call at all.
C6_NotConfiguredNoNetwork ==
  /\ \A i \in CallIdx :
       ~Configured(calls[i].provider) =>
         /\ ~calls[i].r.success
         /\ ~calls[i].r.net
         /\ calls[i].r.error \in NotConfiguredErrors
  /\ ( /\ SingleProviderRun /\ Finished
       /\ \/ cmd = "binance" /\ ~Configured("binance")
          \/ cmd = "tx" /\ parseTxInput(inp.text).type = "solana" /\ ~Configured("solscan")
          \/ SuppliedChain # Absent /\ ~Configured("etherscan") ) =>
       /\ exitCode = 1
       /\ TopLevelErrors # {} /\ TopLevelErrors \subseteq NotConfiguredErrors
       /\ \A i \in CallIdx : ~calls[i].r.net

\* C6 witness: the Binance balance command has ended with the API key set
\* and the secret missing.
C6_Witness ==
  /\ cmd = "binance" /\ pc = "done" /\ exitCode = 1
  /\ Truthy(creds.binanceApiKey) /\ ~Truthy(creds.binanceApiSecret)

\* no chain was supplied to the multi-chain search
NoChainSupplied ==
  \/ cmd = "find" /\ ~inp.preferredChains.given
  \/ cmd = "tx" /\ loc.chains = DEFAULT_CHAIN_ORDER

\* C7: with no chain supplied, a search that found the transaction has looked
\* up exactly the first k chains of the default order, one lookup each and in
\* that order, all but the last without success, and reports the k-th chain.
C7_StopsAtFirstMatch ==
  (NoChainSupplied /\ loc.foundChain # Absent) =>
    LET k == Cardinality(Lookups) IN
      /\ k = Len(loc.triedChains)
      /\ k <= Len(DEFAULT_CHAIN_ORDER)
      /\ loc.foundChain = DEFAULT_CHAIN_ORDER[k]
      /\ \A i \in 1..k :
           /\ calls[i].provider = "etherscan"
           /\ calls[i].chain = DEFAULT_CHAIN_ORDER[i]
           /\ calls[i].r.success <=> i = k
      /\ loc.transactionChain = loc.foundChain
      /\ (pc = "returned" => result.chain = loc.foundChain)
      /\ (result.kind = "tx" => result.chain = loc.foundChain)

\* C7 witness: the transaction was found on the third probed chain.
C7_Witness ==
  /\ NoChainSupplied /\ Finished
  /\ loc.foundChain = "base" /\ Cardinality(Lookups) = 3
  /\ Cardinality(Lookups) < Len(DEFAULT_CHAIN_ORDER)

\* C8: when an EVM lookup names its chain (a valid --chain value, else the
\* chain of the explorer URL) the probe loop is never entered, no lookup goes
\* to any other chain, and the finished command has issued exactly one
\* single-chain lookup, also when that lookup failed.
C8_ExplicitChainBypassesProbe ==
  SuppliedChain # Absent =>
    /\ pc # "probe"
    /\ \A i \in CallIdx : calls[i].chain = SuppliedChain
    /\ Cardinality(Lookups) <= 1
    /\ (pc # "parse" => Cardinality(Lookups) = 1)

\* C8 witness: the one lookup against the chain taken from the URL was sent,
\* failed, and the command ended.
C8_Witness ==
  /\ cmd = "tx" /\ pc = "done" /\ exitCode = 1
  /\ SuppliedChain # Absent /\ Len(calls) = 1 /\ calls[1].r.net
  /\ inp.chain = Absent

\* a failure caused by an absent credential: the last provider method called
\* refused to run because its credential is missing
LastCallNotConfigured ==
  /\ calls # <<>>
  /\ ~Configured(calls[Len(calls)].provider)

\* C9 (as claimed): every failure caused by an absent credential is reported
\* to the user as a not-configured error.
C9_NotConfiguredIsReported ==
  (Finished /\ Failed /\ LastCallNotConfigured) =>
    \E e \in TopLevelErrors : e \in NotConfiguredErrors

\* C10 (as claimed): when every provider that was tried failed, the failure
\* shown to the user contains the reason of each of them.
C10_AllReasonsReported ==
  (Finished /\ Failed /\ calls # <<>>) =>
    \A i \in CallIdx : calls[i].r.error \in Reported

\* C11 (as claimed): within one invocation no provider is called twice for
\* the same operation, and the multi-chain search looks no chain up twice.
C11_AtMostOncePerProviderAndChain ==
  \A i, j \in CallIdx :
    (i < j /\ calls[i].provider = calls[j].provider) => calls[i].chain # calls[j].chain

\* C11 (amended): no provider is called twice for the same operation, and the
\* multi-chain search looks each entry of its chain list up at most once, in
\* order; a chain is looked up twice only when the caller's own override
\* list names it twice.
C11_EachEntryAtMostOnce ==
  /\ cmd = "find" =>
       /\ Len(calls) <= Len(loc.chains)
       /\ \A i \in CallIdx : calls[i].provider = "etherscan" /\ calls[i].chain = loc.chains[i]
  /\ \A i, j \in CallIdx :
       (i < j /\ calls[i].provider = calls[j].provider /\ calls[i].chain = calls[j].chain)
         => (cmd = "find" /\ inp.preferredChains.given /\ loc.chains[i] = loc.chains[j])

\* C11 witness: the unified history provider was configured, its remote call
\* failed, and the command went on to the chain-specific provider.
C11_Witness ==
  /\ cmd = "history" /\ Len(calls) = 2
  /\ calls[1].provider = "zerion" /\ ~calls[1].r.success /\ calls[1].r.net
  /\ calls[2].provider = ApiProvider

\* C12: when every probed chain failed, the search returns a failure whose
\* triedChains is the list of chains that were looked up, in the order of the
\* lookups: the whole probe list, which is the eight default chains when the
\* caller gave no override.
C12_ExhaustionListsAllTried ==
  (cmd = "find" /\ pc = "returned" /\ ~result.success) =>
    /\ \A i \in CallIdx : ~calls[i].r.success
    /\ result.triedChains = [i \in CallIdx |-> calls[i].chain]
    /\ result.triedChains = loc.chains
    /\ ~inp.preferredChains.given =>
         result.triedChains = <<"ethereum", "arbitrum", "base", "polygon",
                                "optimism", "bsc", "avalanche", "fantom">>

\* C12 witness: no override, all eight default chains were looked up and failed.
C12_Witness ==
  /\ cmd = "find" /\ pc = "returned" /\ ~result.success
  /\ ~inp.preferredChains.given
  /\ Len(calls) = 8 /\ Len(result.triedChains) = 8
  /\ \E i \in CallIdx : calls[i].r.net

\* the engine returned and the topic yielded exactly one market: a relevant,
\* bullish-flavored question at 90% Yes and volume 0
OneBullishMarketAt90NoVolume ==
  /\ cmd = "sentiment" /\ pc = "returned"
  /\ Len(loc.allMarkets) = 1
  /\ LET m == loc.allMarkets[1] IN
       /\ isMarketRelevantToTopic(m, inp.topic, loc.searchTerms)
       /\ m.question \cap NEUTRAL_OVERRIDE_PATTERNS = {}
       /\ questionSentimentOf(m) = "bullish"
       /\ m.yes = <<90>> /\ m.volume = 0

\* C13 (as claimed): one bullish-flavored market at 90% Yes and volume 0
\* gives the overall sentiment bullish with aggregate confidence 90.
C13_OneSignalIsBullishAt90 ==
  OneBullishMarketAt90NoVolume =>
    /\ result.success
    /\ result.sentiment.overallSentiment = "bullish"
    /\ result.sentiment.confidence = 90

\* C13 (amended): one bullish-flavored market at 90% Yes and volume 0 gives
\* one bullish signal of confidence 80 and the aggregate confidence
\* round(1.0 * 50 + 80 * 0.5) = 90, but the overall sentiment neutral with
\* score 0: the weight log10(0 + 1) of the only signal is 0.
C13_OneSignalNoVolumeIsNeutralAt90 ==
  OneBullishMarketAt90NoVolume =>
    /\ result.success
    /\ Len(result.sentiment.signals) = 1
    /\ result.sentiment.signals[1].sentiment = "bullish"
    /\ result.sentiment.signals[1].confidence = 80
    /\ result.sentiment.overallSentiment = "neutral"
    /\ result.sentiment.sentimentScore = 0
    /\ result.sentiment.confidence = 90

\* C13 witness: such a topic was analysed and a verdict came back.
C13_Witness ==
  OneBullishMarketAt90NoVolume /\ result.success

\* the gathered markets that are relevant, not overridden, and whose question
\* has a direction
Scoreable ==
  {i \in 1..Len(loc.allMarkets) :
     LET m == loc.allMarkets[i] IN
       /\ isMarketRelevantToTopic(m, inp.topic, loc.searchTerms)
       /\ m.question \cap NEUTRAL_OVERRIDE_PATTERNS = {}
       /\ questionSentimentOf(m) # "neutral"}

Opposite(s) == IF s = "bullish" THEN "bearish" ELSE "bullish"

\* the signals of the verdict that came from market m
VerdictSignalsOf(m) ==
  {k \in 1..Len(result.sentiment.signals) : result.sentiment.signals[k].id = m.id}

\* C14 (as claimed): a Yes-probability above 0.5 gives a signal of the
\* question's flavor, one below 0.3 a signal of the opposite flavor, and one
\* from 0.3 to 0.5 no signal at all; no neutral signal appears in a verdict.
C14_NeutralBandIsDropped ==
  (cmd = "sentiment" /\ pc = "returned" /\ result.success /\ inp.limit = <<>>) =>
    /\ \A k \in 1..Len(result.sentiment.signals) :
         result.sentiment.signals[k].sentiment # "neutral"
    /\ \A i \in Scoreable :
         LET m == loc.allMarkets[i]
             p == yesProbabilityOf(m)
             f == questionSentimentOf(m)
         IN /\ p > 50 => \E k \in VerdictSignalsOf(m) : result.sentiment.signals[k].sentiment = f
            /\ p < 30 => \E k \in VerdictSignalsOf(m) :
                           result.sentiment.signals[k].sentiment = Opposite(f)
            /\ (p >= 30 /\ p <= 50) => VerdictSignalsOf(m) = {}

\* C14 (amended): a Yes-probability above 0.5 gives a signal of the question's
\* flavor, one below 0.3 a signal of the opposite flavor, and one from 0.3 to
\* 0.5 a signal with sentiment neutral, which stays in the verdict and counts
\* in its aggregation: next to one bullish signal of confidence 80 a neutral
\* signal of confidence 0 halves the aggregate confidence from 90 to 45.
C14_NeutralBandIsKept ==
  (cmd = "sentiment" /\ pc = "returned" /\ result.success /\ inp.limit = <<>>) =>
    /\ Len(result.sentiment.signals) = Cardinality(Scoreable)
    /\ \A i \in Scoreable :
         LET m == loc.allMarkets[i]
             p == yesProbabilityOf(m)
             f == questionSentimentOf(m)
         IN /\ p > 50 => \E k \in VerdictSignalsOf(m) : result.sentiment.signals[k].sentiment = f
            /\ p < 30 => \E k \in VerdictSignalsOf(m) :
                           result.sentiment.signals[k].sentiment = Opposite(f)
            /\ (p >= 30 /\ p <= 50) =>
                 \E k \in VerdictSignalsOf(m) : result.sentiment.signals[k].sentiment = "neutral"
    /\ ( /\ Len(result.sentiment.signals) = 2
         /\ \E k, n \in 1..2 :
              /\ result.sentiment.signals[k].sentiment = "bullish"
              /\ result.sentiment.signals[k].confidence = 80
              /\ result.sentiment.signals[n].sentiment = "neutral"
              /\ result.sentiment.signals[n].confidence = 0 )
       => result.sentiment.confidence = 45

\* C14 witness: a verdict with one bullish signal at 90% and one neutral
\* signal from a bearish-flavored question at 50%.
C14_Witness ==
  /\ cmd = "sentiment" /\ pc = "returned" /\ result.success /\ inp.limit = <<>>
  /\ Len(result.sentiment.signals) = 2
  /\ \E k, n \in 1..2 :
       /\ result.sentiment.signals[k].sentiment = "bullish"
       /\ result.sentiment.signals[k].probability = 90
       /\ result.sentiment.signals[n].sentiment = "neutral"
       /\ result.sentiment.signals[n].probability = 50
       /\ \E i \in Scoreable : /\ loc.allMarkets[i].id = result.sentiment.signals[n].id
                               /\ questionSentimentOf(loc.allMarkets[i]) = "bearish"

NoMarketsError == "No prediction markets found for topic"
NoSignalsError == "Found markets for topic but couldn't extract sentiment signals"

\* the gathered markets that pass the relevance test
RelevantGathered ==
  {i \in 1..Len(loc.allMarkets) :
     isMarketRelevantToTopic(loc.allMarkets[i], inp.topic, loc.searchTerms)}

\* some search call came back with a market
SearchHit ==
  \E i \in CallIdx : /\ calls[i].provider = "polymarket-search"
                     /\ calls[i].r.success /\ ~calls[i].r.empty

\* C15 (as claimed): the no-markets error comes exactly when no candidate
\* passes the relevance test, the no-signals error exactly when relevant
\* candidates exist and none of them can be scored.
C15_ErrorsSplitOnRelevance ==
  (cmd = "sentiment" /\ pc = "returned") =>
    /\ result.error = NoMarketsError <=> RelevantGathered = {}
    /\ result.error = NoSignalsError <=> (RelevantGathered # {} /\ Scoreable = {})
    /\ NoMarketsError # NoSignalsError

\* C15 (amended): the no-markets error comes exactly when the searches
\* returned no market at all and the trending list added no relevant one; the
\* no-signals error exactly when some market was gathered (search hits are
\* taken as they come, relevant or not) and every gathered market is
\* irrelevant, overridden as a neutral question, or of unmatched wording.
C15_ErrorsSplitOnGathered ==
  (cmd = "sentiment" /\ pc = "returned") =>
    /\ result.error = NoMarketsError <=> (~SearchHit /\ RelevantGathered = {})
    /\ result.error = NoSignalsError <=> ((SearchHit \/ RelevantGathered # {}) /\ Scoreable = {})
    /\ result.success <=> Scoreable # {}
    /\ NoMarketsError # NoSignalsError

\* C15 witness: the only gathered market was a search hit that is not
\* relevant to the topic, and the engine reported the no-signals error.
C15_Witness ==
  /\ cmd = "sentiment" /\ pc = "returned"
  /\ SearchHit /\ Len(loc.allMarkets) = 1 /\ RelevantGathered = {}
  /\ result.error = NoSignalsError

\* the failure a provider method returns when its request was aborted
TimeoutErrors ==
  {"Failed to fetch Zerion history", "Failed to fetch EVM history",
   "Failed to fetch Solana history"}

\* C16: a call that exceeded its timeout comes back as an ordinary failure
\* value, nothing is thrown, and in the history command a timed out unified
\* provider is followed by the chain-specific provider whenever that one is
\* configured, as after any other failure of the unified provider; with no
\* further provider the failure is reported and the command exits with 1.
C16_TimeoutIsOrdinaryFailure ==
  cmd = "history" =>
    /\ \A i \in CallIdx : calls[i].r.error \in TimeoutErrors =>
         /\ ~calls[i].r.thrown /\ ~calls[i].r.success
         /\ TimerArmed(clientTimeoutMs)
    /\ \A i \in CallIdx :
         (calls[i].provider = "zerion" /\ ~calls[i].r.success) =>
           IF hasChainApi
           THEN \/ pc \in {"api", "waiting"} /\ Len(calls) = i
                \/ Len(calls) = i + 1 /\ calls[i + 1].provider = ApiProvider
           ELSE Finished /\ Failed /\ calls[i].r.error \in Reported /\ Len(calls) = i
    /\ (Finished /\ calls # <<>> /\ ~calls[Len(calls)].r.success) =>
         exitCode = 1 /\ calls[Len(calls)].r.error \in Reported

\* C16 witness: --timeout 5000 was given, the unified provider timed out, the
\* chain-specific provider was called next and answered.
C16_Witness ==
  /\ cmd = "history" /\ inp.timeout = TNum(5000)
  /\ Len(calls) = 2
  /\ calls[1].provider = "zerion" /\ calls[1].r.error \in TimeoutErrors
  /\ calls[2].provider = ApiProvider /\ calls[2].r.success
  /\ Succeeded

\* C17 (as claimed): every provider call runs under a finite timeout, the
\* --timeout value when one is given and a finite default otherwise, so no
\* call waits for ever, whatever the config files and the environment hold.
C17_EveryCallBounded ==
  cmd \in {"history", "test"} =>
    /\ pc # "waiting"
    /\ calls # <<>> =>
         /\ TimerArmed(clientTimeoutMs)
         /\ (inp.timeout.k = "num" /\ inp.timeout.n > 0) => clientTimeoutMs = inp.timeout

\* C18 (as claimed): no provider method ever throws for a provider-level
\* condition (missing credentials, remote error, malformed payload, timeout);
\* every call comes back as a tagged success or failure value.
C18_NothingIsThrown ==
  \A i \in CallIdx : ~calls[i].r.thrown

\* the keys the local and the global config file contribute
LocalKeys == readConfigFile(inp.localFile)
GlobalKeys == readConfigFile(inp.globalFile)

\* C19: every resolved secret is the environment's value when the variable is
\* set, otherwise the local config file's value when that file defines the
\* key, otherwise the global config file's value; a set environment variable
\* wins over both files.
C19_EnvThenLocalThenGlobal ==
  (cmd = "credentials" /\ pc \in {"validate", "returned"}) =>
    \A n \in CredNames :
      /\ inp.env[n] # Absent => creds[n] = inp.env[n]
      /\ (inp.env[n] = Absent /\ LocalKeys[n] # Absent) => creds[n] = LocalKeys[n]
      /\ (inp.env[n] = Absent /\ LocalKeys[n] = Absent) => creds[n] = GlobalKeys[n]

\* C19 witness: for one secret the environment won over both files, for the
\* other the local file won over the global file.
C19_Witness ==
  /\ cmd = "credentials" /\ pc = "returned"
  /\ LET a == inp.pair[1]
         b == inp.pair[2]
     IN /\ inp.env[a] = "from-env" /\ LocalKeys[a] = "from-local" /\ GlobalKeys[a] = "from-global"
        /\ creds[a] = "from-env"
        /\ inp.env[b] = Absent /\ LocalKeys[b] = "from-local" /\ GlobalKeys[b] = "from-global"
        /\ creds[b] = "from-local"

\* C20: a provider that needs a pair of secrets is reported capable exactly
\* when both resolved secrets are present and non-empty; with one of the two
\* missing or empty it is reported not capable.
C20_PairNeedsBoth ==
  (cmd = "credentials" /\ pc = "returned") =>
    /\ result.flags.hasBinance <=>
         /\ creds.binanceApiKey \notin {Absent, ""}
         /\ creds.binanceApiSecret \notin {Absent, ""}
    /\ result.flags.hasCoinbase <=>
         /\ creds.coinbaseApiKeyId \notin {Absent, ""}
         /\ creds.coinbaseApiKeySecret \notin {Absent, ""}

\* C20 witness: the Coinbase key id was resolved and the PEM secret was not;
\* the provider is reported not capable.
C20_Witness ==
  /\ cmd = "credentials" /\ pc = "returned"
  /\ creds.coinbaseApiKeyId = "from-env" /\ creds.coinbaseApiKeySecret = ""
  /\ ~result.flags.hasCoinbase

CoinGeckoKeySet == creds.coingeckoApiKey \notin {Absent, ""}

\* C21 (as stated): the provider with one optional secret, CoinGecko, is always
\* reported capable: the capability flags that config show prints say so
\* whether or not the key is configured.
C21_AlwaysReportedCapable ==
  (cmd = "config" /\ pc = "done") => result.credentials.hasCoinGecko

\* C21 (amended): the flag hasCoinGecko says whether the key is configured and
\* is false without one; the provider is available all the same: the price
\* command and the provider test call it with and without a key, and the key
\* decides only between the pro and the free endpoint.
C21_KeyPicksTierNotAvailability ==
  /\ (cmd = "config" /\ pc = "done") => (result.credentials.hasCoinGecko <=> CoinGeckoKeySet)
  /\ (cmd \in {"price", "test"} /\ pc \notin {"price", "test.coingecko"}) =>
       /\ calls # <<>> /\ calls[1].provider = "coingecko" /\ calls[1].r.net
       /\ loc.apiBase = IF CoinGeckoKeySet THEN COINGECKO_PRO_API_BASE ELSE COINGECKO_API_BASE
  /\ (cmd = "test" /\ pc # "test.coingecko") => loc.results[1].status # "skip"

\* C21 witness: the provider test ran without a CoinGecko key and the free
\* endpoint answered.
C21_Witness ==
  /\ cmd = "test" /\ pc = "done"
  /\ creds.coingeckoApiKey = Absent
  /\ loc.results[1] = [provider |-> "CoinGecko", status |-> "ok", message |-> ""]
  /\ loc.apiBase = COINGECKO_API_BASE

\* no provider call of the invocation returned data
NothingFetched == calls # <<>> /\ \A i \in 1..Len(calls) : ~calls[i].r.success

\* C22: a command whose operation failed writes a message to standard error
\* and exits with status 1; the status is 0 only when the operation succeeded.
C22_FailureExitsOneWithMessage ==
  (pc = "done" /\ NothingFetched) =>
    /\ exitCode = 1
    /\ \E i \in 1..Len(stderr) : stderr[i].level = "err"

\* the provider whose result produced a cursor
IssuerOf(cursor) ==
  CASE cursor = "zerion:page[after]" -> "zerion"
    [] cursor = "debank:time_at"     -> "debank"
    [] cursor = "helius:signature"   -> "helius"

\* C23: the cursor the user passes back reaches a provider unmodified, and
\* only the provider whose result produced it, never another provider of the
\* fallback chain.
C23_CursorOnlyToItsIssuer ==
  \A i \in 1..Len(calls) :
    (cmd = "history" /\ calls[i].cursor # Absent) =>
      /\ calls[i].cursor = inp.cursor
      /\ calls[i].provider = IssuerOf(calls[i].cursor)

\* C24: a scraping call runs all its agent-browser commands on the one
\* session name it generated, and before it returns, on the success path and
\* on every failure path (open, eval, parse), its last command is the close of
\* that session; the session is then closed unless that close itself failed,
\* which the call ignores (best-effort close).
C24_SessionClosedBeforeReturn ==
  (cmd = "scrape" /\ pc = "returned") =>
    /\ loc.session \in SessionNames
    /\ \A i \in 1..Len(loc.cmds) : loc.cmds[i].session = loc.session
    /\ loc.cmds # <<>> /\ loc.cmds[Len(loc.cmds)].verb = "close"
    /\ loc.browser = "open" => ~loc.cmds[Len(loc.cmds)].ok

\* C24 witness: the page opened, the eval command failed, and the call closed
\* its session before it returned the failure.
C24_Witness ==
  /\ cmd = "scrape" /\ pc = "returned" /\ ~result.success
  /\ Len(loc.cmds) = 3
  /\ loc.cmds[2] = Cmd(loc.session, "eval", FALSE)
  /\ loc.browser = "closed"

\* at time `now` the stored session is past its expiry time, or the file does
\* not parse
Stale(file, now) ==
  \/ file.kind = "truncated"
  \/ file.kind = "json" /\ now > file.session[1].expiry * 1000

SwitchFailed == cmd = "wallet" /\ result.kind = "walletSwitchChain" /\ ~result.success

C26_SameAnswersSameResult ==
  (cmd = "txdetail" /\ Len(loc.runs) = 2) => loc.runs[1] = loc.runs[2]

\* C27: a receipt that exists and references a block but has no status flag
\* makes the transaction 'success', never 'pending'; 'pending' is reported
\* only when the receipt has neither a status nor a block reference.
C27_BlockReferenceMeansSuccess ==
  (cmd = "txdetail" /\ result.kind = "txdetail") =>
    /\ (inp.receipt.exists /\ inp.receipt.status = "" /\ inp.receipt.blockNumber # <<>>) =>
         result.transaction.status = "success"
    /\ result.transaction.status = "pending" =>
         (inp.receipt.status = "" /\ inp.receipt.blockNumber = <<>>)

\* C27 witness: the receipt of a mined transaction carries no status and the
\* result says 'success'.
C27_Witness ==
  /\ cmd = "txdetail" /\ result.kind = "txdetail"
  /\ inp.receipt = [exists |-> TRUE, status |-> "", blockNumber |-> <<7>>]
  /\ result.transaction.status = "success"

\* The chain each supported explorer serves and the kind of hash its
\* transaction pages carry, as the parseTxInput tests expect them.
ExplorerChain ==
  [ h \in {"etherscan.io", "polygonscan.com", "bscscan.com", "arbiscan.io",
           "basescan.org", "optimistic.etherscan.io", "snowtrace.io", "ftmscan.com",
           "solscan.io", "explorer.solana.com"} |->
      CASE h = "etherscan.io"            -> "ethereum"
        [] h = "polygonscan.com"         -> "polygon"
        [] h = "bscscan.com"             -> "bsc"
        [] h = "arbiscan.io"             -> "arbitrum"
        [] h = "basescan.org"            -> "base"
        [] h = "optimistic.etherscan.io" -> "optimism"
        [] h = "snowtrace.io"            -> "avalanche"
        [] h = "ftmscan.com"             -> "fantom"
        [] h = "solscan.io"              -> "solana"
        [] h = "explorer.solana.com"     -> "solana" ]

HashKindOf(host) == IF ExplorerChain[host] = "solana" THEN "solsig" ELSE "evmhash"

\* the text, whitespace aside, begins with a supported explorer's
\* transaction URL: scheme, optional www., host, /tx/ and a hash of that
\* explorer's kind
BeginsWithTxUrl(t) ==
  /\ t.scheme \in {"http", "https"}
  /\ t.host \in DOMAIN ExplorerChain
  /\ t.path = "/tx/"
  /\ t.payload = HashKindOf(t.host)

\* the text is such a URL: after the hash comes nothing, or a query
IsTxUrl(t) == BeginsWithTxUrl(t) /\ t.tail \in {"", "?tab=logs"}

\* the text, whitespace aside, is exactly an EVM hash or a Solana signature
IsRawHash(t) == t.scheme = "none" /\ t.tail = "" /\ t.payload \in {"evmhash", "solsig"}

FromUrl(t) ==
  [hash |-> t.payload, chain |-> ExplorerChain[t.host],
   type |-> IF t.payload = "solsig" THEN "solana" ELSE "evm"]

FromRawHash(t) ==
  [hash |-> t.payload, chain |-> Absent,
   type |-> IF t.payload = "solsig" THEN "solana" ELSE "evm"]

ParseReturned == cmd = "parse" /\ pc = "returned"

\* C28 as stated: a transaction URL of a supported explorer yields the
\* embedded hash, the explorer's chain and the matching type; a raw hash or
\* signature yields its type and no chain; every other input yields type
\* 'unknown'.
C28_TxUrlOrRawHashElseUnknown ==
  ParseReturned =>
    IF IsTxUrl(inp.text) THEN result.parsed = FromUrl(inp.text)
    ELSE IF IsRawHash(inp.text) THEN result.parsed = FromRawHash(inp.text)
    ELSE result.parsed.type = "unknown" /\ result.parsed.chain = Absent

\* C28 amended: a text that begins with a supported explorer's transaction
\* URL, whatever follows the hash, yields the hash the pattern captured with
\* the explorer's chain and the matching type; a raw hash or signature yields
\* its type and no chain; every other input yields type 'unknown' and no
\* chain.
C28_TxUrlPrefixOrRawHashElseUnknown ==
  ParseReturned =>
    IF BeginsWithTxUrl(inp.text) THEN result.parsed = FromUrl(inp.text)
    ELSE IF IsRawHash(inp.text) THEN result.parsed = FromRawHash(inp.text)
    ELSE result.parsed.type = "unknown" /\ result.parsed.chain = Absent

\* a padded www. URL of optimistic.etherscan.io whose hash is followed by
\* further hex digits was parsed as an Optimism transaction
C28_Witness ==
  /\ ParseReturned
  /\ inp.text.pad /\ inp.text.www
  /\ inp.text.host = "optimistic.etherscan.io"
  /\ inp.text.tail = "morehashchars"
  /\ result.parsed = [hash |-> "evmhash", chain |-> "optimism", type |-> "evm"]

Init ==
  /\ (InitBalance \/ InitHistory \/ InitBinance \/ InitTx \/ InitFind)
  /\ calls = <<>>
  /\ stderr = <<>>
  /\ result = NoResult
  /\ exitCode = -1

Next ==
  \/ BalanceNansen
  \/ BalanceApi
  \/ BalanceBrowser
  \/ BalanceOutput
  \/ HistoryValidate
  \/ HistoryZerion
  \/ HistoryApi
  \/ HistoryOutput
  \/ BinanceBalance
  \/ TxStart
  \/ FindProbe
  \/ FindExhausted
  \/ TxVerbose
  \/ TxOutput

\* the sentiment engine on its own: client.getPolymarketSentiment(topic, {limit})
SentimentInit ==
  /\ InitSentiment
  /\ calls = <<>>
  /\ stderr = <<>>
  /\ result = NoResult
  /\ exitCode = -1

SentimentNext ==
  \/ SentimentSearch
  \/ SentimentTrending

SentimentSpec == SentimentInit /\ [][SentimentNext]_vars

\* the history and test commands under every combination of timeout settings
TimeoutInit ==
  /\ (InitHistoryTimeouts \/ InitTest)
  /\ calls = <<>>
  /\ stderr = <<>>
  /\ result = NoResult
  /\ exitCode = -1

TimeoutNext ==
  \/ HistoryValidate
  \/ HistoryZerion
  \/ HistoryApi
  \/ HistoryOutput
  \/ TestPolymarket

TimeoutSpec == TimeoutInit /\ [][TimeoutNext]_vars

\* credential resolution on its own
CredentialsInit ==
  /\ InitCredentials
  /\ calls = <<>>
  /\ stderr = <<>>
  /\ result = NoResult
  /\ exitCode = -1

CredentialsNext ==
  \/ CredentialsLoad
  \/ CredentialsResolve
  \/ CredentialsValidate

CredentialsSpec == CredentialsInit /\ [][CredentialsNext]_vars

\* price, config show, test (price providers) and portfolio
CommandsInit ==
  /\ InitPrice \/ InitConfigShow \/ InitTestPrices \/ InitPortfolio
  /\ calls = <<>>
  /\ stderr = <<>>
  /\ result = NoResult
  /\ exitCode = -1

CommandsNext ==
  \/ PriceCoinGecko
  \/ PriceOutput
  \/ ConfigShow
  \/ TestCoinGecko
  \/ TestCoinMarketCap
  \/ TestSummary
  \/ PortfolioValidate
  \/ PortfolioBalances
  \/ PortfolioDefi
  \/ PortfolioNfts
  \/ PortfolioOutput

CommandsSpec == CommandsInit /\ [][CommandsNext]_vars

\* history, page after page
PaginationInit ==
  /\ InitHistory
  /\ calls = <<>>
  /\ stderr = <<>>
  /\ result = NoResult
  /\ exitCode = -1

PaginationNext ==
  \/ HistoryValidate
  \/ HistoryZerion
  \/ HistoryApi
  \/ HistoryOutput
  \/ HistoryNextPage

PaginationSpec == PaginationInit /\ [][PaginationNext]_vars

\* one call of scrapeDebankProfile / scrapeSolscanProfile
ScrapeInit ==
  /\ InitScrape
  /\ calls = <<>>
  /\ stderr = <<>>
  /\ result = NoResult
  /\ exitCode = -1

ScrapeNext ==
  \/ ScrapeStart
  \/ ScrapeOpen
  \/ ScrapeEval
  \/ ScrapeCloseAndReturn
  \/ ScrapeCatch

ScrapeSpec == ScrapeInit /\ [][ScrapeNext]_vars

\* wallet commands, one after the other, on one session file
WalletInit ==
  /\ InitWallet
  /\ calls = <<>>
  /\ stderr = <<>>
  /\ result = NoResult
  /\ exitCode = -1

WalletNext ==
  \/ WalletConnect
  \/ WalletDisconnect
  \/ WalletStatus
  \/ WalletSendEvm
  \/ WalletSwitchChain
  \/ WalletTick
  \/ SessionFileTruncated

WalletSpec == WalletInit /\ [][WalletNext]_vars

\* getEvmTransaction run twice on the same answers
TxDetailInit ==
  /\ InitTxDetail
  /\ calls = <<>>
  /\ stderr = <<>>
  /\ result = NoResult
  /\ exitCode = -1

TxDetailNext ==
  \/ TxDetailRun
  \/ TxDetailClock

TxDetailSpec == TxDetailInit /\ [][TxDetailNext]_vars

ParseInit ==
  /\ InitParse
  /\ calls = <<>>
  /\ stderr = <<>>
  /\ result = NoResult
  /\ exitCode = -1

ParseNext == ParseTx

ParseSpec == ParseInit /\ [][ParseNext]_vars

Spec == Init /\ [][Next]_vars
====
